---- MODULE Spec2Model ----
(***************************************************************************)
(* CarrierHub front end: the API client's request engine (lib/api.ts), the *)
(* client cache (lib/cache.ts), the cached / invalidating booking          *)
(* endpoints, the booking page with its payment widget, the two session    *)
(* providers and the pure helpers, as state machines.                      *)
(*                                                                         *)
(* JavaScript values are encoded as strings: "undefined" and "null" are    *)
(* the two empty values, "" is the empty string, "0" the number zero and   *)
(* "{}" an object.                                                         *)
(* Strings built by template literals are tuples of their parts; strings   *)
(* the code inspects character by character are sequences of characters.   *)
(***************************************************************************)
EXTENDS Integers, Sequences, FiniteSets, TLC

VARIABLES
    storage,    \* localStorage: the keys 'token' and 'adminToken'
    calls,      \* the ApiClient calls: call id -> the call's frame
    cache,      \* ClientCache.cache: key -> CacheItem or NoItem
    now,        \* Date.now()
    lastRead,   \* the latest ClientCache.get / has and what it returned
    backend,    \* the backend: how many bookings it has created
    baseURL,    \* ApiClient.baseURL, as its characters
    booking,    \* BookingPage: its React state, the widget, toasts, route
    session,    \* AuthProvider and AdminProvider: user / admin and isLoading; the URL
    probe       \* the latest call of a pure helper: its input and its result

vars == <<storage, calls, cache, now, lastRead, backend, baseURL, booking, session, probe>>

(***************************************************************************)
(* JavaScript values                                                       *)
(***************************************************************************)
Undefined == "undefined"
JsNull == "null"

\* an object or array where the code expects a string
JsObject == "{}"

\* typeof v === 'string'
IsString(v) == v \notin {Undefined, JsNull, "0", "false", JsObject}

\* the values `x && ...` / `x || ...` / `if (x)` treat as false
Falsy == {Undefined, JsNull, "", "0", "false"}

Truthy(v) == v \notin Falsy

RECURSIVE Pow2(_)
Pow2(n) == IF n = 0 THEN 1 ELSE 2 * Pow2(n - 1)

Min(a, b) == IF a < b THEN a ELSE b

(***************************************************************************)
(* Bounds of the model                                                     *)
(***************************************************************************)
\* calls running concurrently in the bookings specification
MaxCalls == 3

(***************************************************************************)
(* Request engine: constants of ApiClient.request                          *)
(***************************************************************************)
maxRetries == 3

BaseTimeout == 15000

TimeoutStep == 5000

BackoffBase == 1000

BackoffCap == 10000

timeoutDuration(retryCount) == BaseTimeout + (retryCount * TimeoutStep)

\* the backoff with the exponent one too high
waitTimeDoubled(retryCount) == Min(BackoffBase * Pow2(retryCount + 1), BackoffCap)

waitTime(retryCount) == Min(BackoffBase * Pow2(retryCount), BackoffCap)

\* the messages of the catch block (part_011 lines 188-199)
MsgNetwork == "Network error - server may be temporarily unavailable"
MsgTimeout == "Request timeout - server is taking too long to respond. Please try again later."
MsgCannotConnect == "Cannot connect to server - please check your internet connection or try again later"
MsgCors == "CORS error - please contact support if this persists"
MsgNetworkError == "Network error - please check your connection and try again"
MsgMaxRetries == "Maximum retry attempts exceeded. Please try again later."

\* what fetch() rejects with: an Error by name or message, or a value that is
\* no Error
RejectKinds == {"AbortError", "Failed to fetch", "CORS", "NetworkError", "NonError"}

\* the catch block without its AbortError branch
errorMessageNoAbort(thrown) ==
    CASE thrown = "NonError" -> <<MsgNetwork>>
      [] thrown = "Failed to fetch" -> <<MsgCannotConnect>>
      [] thrown = "CORS" -> <<MsgCors>>
      [] thrown = "NetworkError" -> <<MsgNetworkError>>
      [] OTHER -> <<"Connection error: ", thrown, ". Please try again later.">>

errorMessage(thrown) ==
    CASE thrown = "NonError" -> <<MsgNetwork>>
      [] thrown = "AbortError" -> <<MsgTimeout>>
      [] thrown = "Failed to fetch" -> <<MsgCannotConnect>>
      [] thrown = "CORS" -> <<MsgCors>>
      [] thrown = "NetworkError" -> <<MsgNetworkError>>
      [] OTHER -> <<"Connection error: ", thrown, ". Please try again later.">>

(***************************************************************************)
(* Responses of the transport                                              *)
(***************************************************************************)
Statuses == {200, 400, 404, 499, 500}

ResponseOk(status) == status >= 200 /\ status <= 299

\* response.json(): it rejects ("undecodable"), or resolves to null, or to an
\* object whose fields message / error / data are absent or present
Body(kind, message, error, data, ver) ==
    [kind |-> kind, message |-> message, error |-> error, data |-> data, ver |-> ver]

Bodies(ver) ==
    {Body("undecodable", Undefined, Undefined, Undefined, ver),
     Body("null", Undefined, Undefined, Undefined, ver)}
    \cup {Body("object", m, e, d, ver) :
            m \in {Undefined, "", "body message"},
            e \in {Undefined, "body error"},
            d \in {Undefined, JsNull, "0", "payload"}}

NoEnvelope == [success |-> "pending", error |-> <<>>, data |-> Undefined,
               message |-> Undefined, ver |-> -1]

Failure(error) ==
    [success |-> "false", error |-> error, data |-> Undefined,
     message |-> Undefined, ver |-> -1]

\* { success: true, data: data.data || data, message: data.message }
Success(body) ==
    [success |-> "true", error |-> <<>>,
     data |-> IF Truthy(body.data) THEN body.data ELSE "body",
     message |-> body.message, ver |-> body.ver]

(***************************************************************************)
(* Request configuration: token and headers (part_011 lines 100-116)       *)
(***************************************************************************)
NoHeaders == [h \in {} |-> Undefined]

\* { ...a, ...b }
Spread(a, b) ==
    [h \in (DOMAIN a) \cup (DOMAIN b) |-> IF h \in DOMAIN b THEN b[h] ELSE a[h]]

Bearer(token) == <<"Bearer ", token>>

\* auth-utils getToken: localStorage.getItem(TOKEN_KEY)
TOKEN_KEY == "token"

\* lines 103-105: the storage key the token is read from
TokenKey(useAdminToken) == IF useAdminToken THEN "adminToken" ELSE TOKEN_KEY

\* options.headers is "absent" when the caller passes no headers
ConfigHeaders(token, optionHeaders) ==
    LET base == [h \in {"Content-Type"} |-> <<"application/json">>]
        auth == IF Truthy(token)
                THEN [h \in {"Authorization"} |-> Bearer(token)]
                ELSE NoHeaders
        merged == Spread(Spread(base, auth),
                         IF optionHeaders.given THEN optionHeaders.map ELSE NoHeaders)
    IN  \* `...options` follows `headers:` in the literal and replaces it
        IF optionHeaders.given THEN optionHeaders.map ELSE merged

AbsentHeaders == [given |-> FALSE, map |-> NoHeaders]

GivenHeaders(map) == [given |-> TRUE, map |-> map]

(***************************************************************************)
(* Strings as sequences: paths, query strings, cache keys, URLs, form data  *)
(***************************************************************************)
StartsWith(s, prefix) ==
    /\ Len(s) >= Len(prefix)
    /\ SubSeq(s, 1, Len(prefix)) = prefix

\* String.prototype.includes: p occurs in s as a run of consecutive elements
Includes(s, p) ==
    \E i \in 1..(Len(s) - Len(p) + 1) : SubSeq(s, i, i + Len(p) - 1) = p

\* String.prototype.indexOf, 1-based; 0 when p does not occur
IndexOf(s, p) ==
    IF Includes(s, p)
    THEN CHOOSE i \in 1..(Len(s) - Len(p) + 1) :
            /\ SubSeq(s, i, i + Len(p) - 1) = p
            /\ \A j \in 1..(i - 1) : SubSeq(s, j, j + Len(p) - 1) # p
    ELSE 0

\* String.prototype.replace with a string pattern: the first occurrence only
Replace(s, p, by) ==
    LET i == IndexOf(s, p)
    IN  IF i = 0 THEN s
        ELSE SubSeq(s, 1, i - 1) \o by \o SubSeq(s, i + Len(p), Len(s))

\* the characters of a string that satisfy Keep (a /g replace of the others)
RECURSIVE Filter(_, _)
Filter(s, keep) ==
    IF s = <<>> THEN <<>>
    ELSE (IF Head(s) \in keep THEN <<Head(s)>> ELSE <<>>) \o Filter(Tail(s), keep)

Whitespace == {" "}

Digits == {"0", "1", "2", "3", "4", "5", "6", "7", "8", "9"}

\* String.prototype.trim
RECURSIVE TrimStart(_)
TrimStart(s) ==
    IF s # <<>> /\ Head(s) \in Whitespace THEN TrimStart(Tail(s)) ELSE s

RECURSIVE TrimEnd(_)
TrimEnd(s) ==
    IF s # <<>> /\ s[Len(s)] \in Whitespace THEN TrimEnd(SubSeq(s, 1, Len(s) - 1)) ELSE s

Trim(s) == TrimEnd(TrimStart(s))

\* the characters of the strings the model spells out
Chars(text) ==
    CASE text = "ab" ->
         <<"a", "b">>
      [] text = "two spaces" ->
         <<" ", " ">>
      [] text = "a@b.c" ->
         <<"a", "@", "b", ".", "c">>
      [] text = "1234567890" ->
         <<"1", "2", "3", "4", "5", "6", "7", "8", "9", "0">>
      [] text = "123-456-78" ->
         <<"1", "2", "3", "-", "4", "5", "6", "-", "7", "8">>
      [] text = "123456789" ->
         <<"1", "2", "3", "4", "5", "6", "7", "8", "9">>
      [] text = "(123) 456-7890" ->
         <<"(", "1", "2", "3", ")", " ", "4", "5", "6", "-", "7", "8", "9",
           "0">>
      [] text = "12345678901" ->
         <<"1", "2", "3", "4", "5", "6", "7", "8", "9", "0", "1">>
      [] text = "phone: none" ->
         <<"p", "h", "o", "n", "e", ":", " ", "n", "o", "n", "e">>
      [] text = "aborted" ->
         <<"a", "b", "o", "r", "t", "e", "d">>
      [] text = "fetch" ->
         <<"f", "e", "t", "c", "h">>
      [] text = "unauthorized" ->
         <<"u", "n", "a", "u", "t", "h", "o", "r", "i", "z", "e", "d">>
      [] text = "auth" ->
         <<"a", "u", "t", "h">>
      [] text = "payment" ->
         <<"p", "a", "y", "m", "e", "n", "t">>
      [] text = "razorpay" ->
         <<"r", "a", "z", "o", "r", "p", "a", "y">>
      [] text = "validation" ->
         <<"v", "a", "l", "i", "d", "a", "t", "i", "o", "n">>
      [] text = "Failed to fetch" ->
         <<"F", "a", "i", "l", "e", "d", " ", "t", "o", " ", "f", "e", "t",
           "c", "h">>
      [] text = "timeout" ->
         <<"t", "i", "m", "e", "o", "u", "t">>
      [] text = "invalid_token" ->
         <<"i", "n", "v", "a", "l", "i", "d", "_", "t", "o", "k", "e", "n">>
      [] text = "expired" ->
         <<"e", "x", "p", "i", "r", "e", "d">>
      [] text = "invalid_credentials" ->
         <<"i", "n", "v", "a", "l", "i", "d", "_", "c", "r", "e", "d", "e",
           "n", "t", "i", "a", "l", "s">>
      [] text = "insufficient_funds" ->
         <<"i", "n", "s", "u", "f", "f", "i", "c", "i", "e", "n", "t", "_",
           "f", "u", "n", "d", "s">>
      [] text = "invalid_card" ->
         <<"i", "n", "v", "a", "l", "i", "d", "_", "c", "a", "r", "d">>
      [] text = "declined" ->
         <<"d", "e", "c", "l", "i", "n", "e", "d">>
      [] text = "CORS" ->
         <<"C", "O", "R", "S">>
      [] text = "The user aborted a request." ->
         <<"T", "h", "e", " ", "u", "s", "e", "r", " ", "a", "b", "o", "r",
           "t", "e", "d", " ", "a", " ", "r", "e", "q", "u", "e", "s", "t",
           ".">>
      [] text = "CORS error - please contact support if this persists" ->
         <<"C", "O", "R", "S", " ", "e", "r", "r", "o", "r", " ", "-", " ",
           "p", "l", "e", "a", "s", "e", " ", "c", "o", "n", "t", "a", "c",
           "t", " ", "s", "u", "p", "p", "o", "r", "t", " ", "i", "f", " ",
           "t", "h", "i", "s", " ", "p", "e", "r", "s", "i", "s", "t", "s">>
      [] text = "payment declined" ->
         <<"p", "a", "y", "m", "e", "n", "t", " ", "d", "e", "c", "l", "i",
           "n", "e", "d">>
      [] text = "validation failed" ->
         <<"v", "a", "l", "i", "d", "a", "t", "i", "o", "n", " ", "f", "a",
           "i", "l", "e", "d">>
      [] text = "Server error. Please try again later." ->
         <<"S", "e", "r", "v", "e", "r", " ", "e", "r", "r", "o", "r", ".",
           " ", "P", "l", "e", "a", "s", "e", " ", "t", "r", "y", " ", "a",
           "g", "a", "i", "n", " ", "l", "a", "t", "e", "r", ".">>
      [] text = "Something else" ->
         <<"S", "o", "m", "e", "t", "h", "i", "n", "g", " ", "e", "l", "s",
           "e">>
      [] text = "Request timeout" ->
         <<"R", "e", "q", "u", "e", "s", "t", " ", "t", "i", "m", "e", "o",
           "u", "t">>
      [] text = "/" ->
         <<"/">>
      [] text = "//" ->
         <<"/", "/">>
      [] text = "/api" ->
         <<"/", "a", "p", "i">>
      [] text = "/login" ->
         <<"/", "l", "o", "g", "i", "n">>
      [] text = "/signup" ->
         <<"/", "s", "i", "g", "n", "u", "p">>
      [] text = "/dashboard" ->
         <<"/", "d", "a", "s", "h", "b", "o", "a", "r", "d">>
      [] text = "/book" ->
         <<"/", "b", "o", "o", "k">>
      [] text = "/book/7" ->
         <<"/", "b", "o", "o", "k", "/", "7">>
      [] text = "//evil.example" ->
         <<"/", "/", "e", "v", "i", "l", ".", "e", "x", "a", "m", "p", "l",
           "e">>
      [] text = "/api/health" ->
         <<"/", "a", "p", "i", "/", "h", "e", "a", "l", "t", "h">>

\* the default base URL (part_011 line 6)
API_BASE_URL ==
    <<"h", "t", "t", "p", "s", ":", "/", "/", "c", "a", "r", "r", "i", "e",
      "r", "h", "u", "b", "-", "b", "a", "c", "k", "e", "n", "d", ".", "o",
      "n", "r", "e", "n", "d", "e", "r", ".", "c", "o", "m", "/", "a", "p",
      "i">>

\* URLSearchParams: `if (params?.x) queryParams.append('x', ...)` for each
\* parameter in turn; params is a sequence of <<name, value>>
RECURSIVE queryParams(_)
queryParams(params) ==
    IF params = <<>> THEN <<>>
    ELSE (IF Truthy(Head(params)[2]) THEN <<Head(params)>> ELSE <<>>)
         \o queryParams(Tail(params))

\* queryParams.toString(): name=value joined by &
RECURSIVE toString(_)
toString(qp) ==
    IF qp = <<>> THEN <<>>
    ELSE <<Head(qp)[1], "=", Head(qp)[2]>>
         \o (IF Tail(qp) = <<>> THEN <<>> ELSE <<"&">> \o toString(Tail(qp)))

(***************************************************************************)
(* ClientCache constants (cache.ts lines 86-100)                           *)
(***************************************************************************)
CACHE_KEYS_CATEGORIES == <<"categories">>
CACHE_KEYS_BOOKINGS == <<"bookings">>

CACHE_TTL_SHORT == 120000

CACHE_TTL_LONG == 900000

NoKey == <<>>

(***************************************************************************)
(* The ApiClient methods (part_011 lines 229-656): what each hands to      *)
(* request(endpoint, options, useAdminToken) and to withCache              *)
(***************************************************************************)
Endpoint(name, path, query, http, headers, useAdminToken) ==
    [name |-> name, path |-> path, query |-> query, http |-> http,
     headers |-> headers, useAdminToken |-> useAdminToken,
     cacheKey |-> NoKey, ttl |-> 0]

Cached(endpoint, key, ttl) == [endpoint EXCEPT !.cacheKey = key, !.ttl = ttl]

NoEndpoint == Endpoint("none", <<>>, <<>>, "GET", AbsentHeaders, FALSE)

getCategories ==
    Cached(Endpoint("getCategories", <<"categories">>, <<>>, "GET", AbsentHeaders, FALSE),
           CACHE_KEYS_CATEGORIES, CACHE_TTL_LONG)

createBooking ==
    Endpoint("createBooking", <<"bookings">>, <<>>, "POST", AbsentHeaders, FALSE)

getBookings(page, limit) ==
    LET qp == toString(queryParams(<<<<"page", page>>, <<"limit", limit>>>>))
    IN  Cached(Endpoint("getBookings", <<"bookings", "me">>, qp, "GET", AbsentHeaders, FALSE),
               CACHE_KEYS_BOOKINGS \o <<"_">> \o (IF qp # <<>> THEN qp ELSE <<"default">>),
               CACHE_TTL_SHORT)

\* the filter parameters of the admin list endpoints, each given or undefined
AdminList(name, path, params) ==
    Endpoint(name, path, toString(queryParams(params)), "GET", AbsentHeaders, TRUE)

UserEndpoints ==
    {Endpoint("signup", <<"auth", "register">>, <<>>, "POST", AbsentHeaders, FALSE),
     Endpoint("login", <<"auth", "login">>, <<>>, "POST", AbsentHeaders, FALSE),
     Endpoint("getProfile", <<"auth", "me">>, <<>>, "GET", AbsentHeaders, FALSE),
     getCategories,
     createBooking,
     getBookings(Undefined, Undefined),
     getBookings("2", Undefined),
     Endpoint("getBooking", <<"bookings", ":bookingId">>, <<>>, "GET", AbsentHeaders, FALSE),
     Endpoint("createPaymentOrder", <<"payments", "create">>, <<>>, "POST", AbsentHeaders, FALSE),
     Endpoint("verifyPayment", <<"payments", "verify">>, <<>>, "POST", AbsentHeaders, FALSE),
     Endpoint("adminLogin", <<"auth", "admin", "login">>, <<>>, "POST", AbsentHeaders, FALSE),
     Endpoint("testConnection", <<"categories">>, <<>>, "GET", AbsentHeaders, FALSE)}

AdminEndpoints ==
    {AdminList("getAdminBookings", <<"admin", "bookings">>, <<<<"status", "PENDING">>, <<"page", Undefined>>>>),
     Endpoint("updateBookingStatus", <<"admin", "bookings", ":bookingId", "status">>, <<>>, "PATCH", AbsentHeaders, TRUE),
     Endpoint("exportBookings", <<"admin", "bookings", "export">>, <<>>, "GET", AbsentHeaders, TRUE),
     Endpoint("getAdminStats", <<"admin", "dashboard", "stats">>, <<>>, "GET", AbsentHeaders, TRUE),
     AdminList("getAllBookings", <<"admin", "bookings">>, <<<<"status", Undefined>>, <<"search", "x">>>>),
     Endpoint("getAdminBooking", <<"admin", "bookings", ":bookingId">>, <<>>, "GET", AbsentHeaders, TRUE),
     Endpoint("deleteBooking", <<"admin", "bookings", ":bookingId">>, <<>>, "DELETE", AbsentHeaders, TRUE),
     AdminList("getRevenueAnalytics", <<"admin", "analytics", "revenue">>, <<<<"period", "daily">>>>),
     AdminList("getBookingAnalytics", <<"admin", "analytics", "bookings">>, <<<<"period", Undefined>>>>),
     Endpoint("getUserAnalytics", <<"admin", "analytics", "users">>, <<>>, "GET", AbsentHeaders, TRUE),
     Endpoint("sendNotification", <<"admin", "users", ":userId", "notify">>, <<>>, "POST", AbsentHeaders, TRUE),
     AdminList("getAllUsers", <<"admin", "users">>, <<<<"page", "2">>, <<"search", Undefined>>>>),
     Endpoint("getUserById", <<"admin", "users", ":userId">>, <<>>, "GET", AbsentHeaders, TRUE),
     Endpoint("updateUser", <<"admin", "users", ":userId">>, <<>>, "PATCH", AbsentHeaders, TRUE),
     Endpoint("deleteUser", <<"admin", "users", ":userId">>, <<>>, "DELETE", AbsentHeaders, TRUE),
     AdminList("getPaymentHistory", <<"admin", "payments">>, <<<<"page", Undefined>>, <<"status", "SUCCESS">>>>),
     Endpoint("getPaymentById", <<"admin", "payments", ":paymentId">>, <<>>, "GET", AbsentHeaders, TRUE),
     Endpoint("refundPayment", <<"admin", "payments", ":paymentId", "refund">>, <<>>, "POST", AbsentHeaders, TRUE),
     Endpoint("getSystemSettings", <<"admin", "settings">>, <<>>, "GET", AbsentHeaders, TRUE),
     Endpoint("updateSystemSettings", <<"admin", "settings">>, <<>>, "PUT", AbsentHeaders, TRUE),
     Endpoint("getBackupData", <<"admin", "backup">>, <<>>, "GET", AbsentHeaders, TRUE),
     \* headers: {}  "Let browser set Content-Type for FormData"
     Endpoint("restoreBackupData", <<"admin", "restore">>, <<>>, "POST", GivenHeaders(NoHeaders), TRUE)}

\* getAdminStats called without its third argument
ApiMethodsStatsAsUser ==
    UserEndpoints
    \cup {IF m.name = "getAdminStats" THEN [m EXCEPT !.useAdminToken = FALSE] ELSE m :
            m \in AdminEndpoints}

ApiMethods == UserEndpoints \cup AdminEndpoints

\* endpoint.startsWith('/admin/')
IsAdminPath(path) == StartsWith(path, <<"admin">>) /\ Len(path) >= 2

(***************************************************************************)
(* ClientCache (cache.ts lines 9-80): the Map is a function whose domain   *)
(* is the set of stored keys                                               *)
(***************************************************************************)
EmptyCache == [k \in {} |-> 0]

\* what a cache entry or a promise holds: `js` is the value as `if (cached)`
\* sees it, `env` the envelope when the value is one
ObjValue(env) == [js |-> "object", env |-> env]

RawValue(js) == [js |-> js, env |-> NoEnvelope]

NullValue == RawValue(JsNull)

CacheItem(data, timestamp, ttl) == [data |-> data, timestamp |-> timestamp, ttl |-> ttl]

\* Date.now() - item.timestamp > item.ttl
Expired(item, t) == t - item.timestamp > item.ttl

Without(map, keys) == [k \in (DOMAIN map) \ keys |-> map[k]]

CacheSet(map, key, data, ttl, t) ==
    [k \in (DOMAIN map) \cup {key} |->
        IF k = key THEN CacheItem(data, t, ttl) ELSE map[k]]

\* get(): the value returned (null when absent or expired) ...
CacheGet(map, key, t) ==
    IF key \notin DOMAIN map THEN NullValue
    ELSE IF Expired(map[key], t) THEN NullValue
    ELSE map[key].data

\* has(): the boolean returned
CacheHas(map, key, t) ==
    IF key \notin DOMAIN map THEN FALSE
    ELSE IF Expired(map[key], t) THEN FALSE
    ELSE TRUE

\* ... and the Map after get() / has(): an expired entry is deleted
\* a read that leaves the expired entry in the Map
AfterReadKeeps(map, key, t) == map

AfterRead(map, key, t) ==
    IF key \in DOMAIN map /\ Expired(map[key], t) THEN Without(map, {key}) ELSE map

CacheDelete(map, key) == Without(map, {key})

CacheCleanup(map, t) == Without(map, {k \in DOMAIN map : Expired(map[k], t)})

NoRead == [op |-> "none", key |-> NoKey, at |-> 0, stored |-> FALSE,
           item |-> CacheItem(NullValue, 0, 0), result |-> NullValue, found |-> FALSE]

\* the record of one get() / has(): the entry it met and what it returned
ReadRecord(op, map, key, t) ==
    [op |-> op, key |-> key, at |-> t,
     stored |-> key \in DOMAIN map,
     item |-> IF key \in DOMAIN map THEN map[key] ELSE CacheItem(NullValue, 0, 0),
     result |-> IF op = "get" THEN CacheGet(map, key, t) ELSE NullValue,
     found |-> IF op = "has" THEN CacheHas(map, key, t) ELSE FALSE]

(***************************************************************************)
(* The frame of one ApiClient call                                         *)
(***************************************************************************)
IdleFrame ==
    [m |-> NoEndpoint, pc |-> "idle", retryCount |-> 0,
     tokenKey |-> "none", token |-> JsNull, headers |-> NoHeaders,
     status |-> 0, thrown |-> "none", ver |-> -1, waits |-> <<>>, timeouts |-> <<>>, hist |-> <<>>,
     result |-> NoEnvelope, value |-> NullValue, fetched |-> FALSE, hit |-> FALSE,
     startNow |-> 0, doneNow |-> 0, after |-> {}, startCreated |-> 0, url |-> <<>>,
     caller |-> JsNull]

\* one network attempt on the wire: the headers it carries and how it ended
\* (status 0: no response yet, or fetch rejected)
Attempt(headers) ==
    [headers |-> headers, status |-> 0, rejected |-> FALSE, open |-> TRUE, processed |-> FALSE]

EndAttempt(hist, status, rejected) ==
    [hist EXCEPT ![Len(hist)] = [@ EXCEPT !.status = status, !.rejected = rejected, !.open = FALSE]]

\* lines 130-142: arm the abort timer and call fetch
IssueAttempt(f) ==
    [f EXCEPT !.pc = "fetching",
              !.timeouts = Append(@, timeoutDuration(f.retryCount)),
              !.hist = Append(@, Attempt(f.headers))]

Return(f, envelope) == [f EXCEPT !.pc = "done", !.result = envelope]

\* an exception leaves the call: its promise rejects
Throw(f, thrown) == [f EXCEPT !.pc = "rejected", !.thrown = thrown]

\* line 129: the loop test, entered with the retry count already set
LoopTest(f) ==
    IF f.retryCount <= maxRetries THEN IssueAttempt(f)
    ELSE Return(f, Failure(<<MsgMaxRetries>>))

\* a loop that goes to the next attempt without the backoff wait
AfterTryNoWait(f) == LoopTest([f EXCEPT !.retryCount = @ + 1])

\* lines 211-218: after a failed attempt that did not return
AfterTry(f) ==
    IF f.retryCount < maxRetries
    THEN [f EXCEPT !.pc = "wait", !.waits = Append(@, waitTime(f.retryCount))]
    ELSE LoopTest([f EXCEPT !.retryCount = @ + 1])

\* a catch block that rethrows on the last attempt
CatchRethrows(f, thrown) ==
    IF f.retryCount = maxRetries THEN Throw(f, thrown) ELSE AfterTry(f)

\* lines 183-209: the catch block
Catch(f, thrown) ==
    LET g == [f EXCEPT !.thrown = thrown]
    IN  IF g.retryCount = maxRetries
        THEN Return(g, Failure(errorMessage(thrown)))
        ELSE AfterTry(g)

\* lines 100-129: request() up to its first fetch
RequestStart(f, m) ==
    LET key == TokenKey(m.useAdminToken)
        token == storage[key]
    IN  LoopTest([f EXCEPT !.m = m, !.retryCount = 0, !.tokenKey = key, !.token = token,
                           !.headers = ConfigHeaders(token, m.headers)])

\* lines 144-170: fetch resolved with a response
OnResponse(f, status, ver) ==
    LET g == [f EXCEPT !.status = status, !.ver = ver,
                       !.hist = EndAttempt(@, status, FALSE)]
    IN  IF ~ResponseOk(status)
        THEN IF status >= 400 /\ status < 500 THEN [g EXCEPT !.pc = "decode"]
             ELSE IF g.retryCount = maxRetries THEN [g EXCEPT !.pc = "decode"]
             ELSE AfterTry(g)
        ELSE [g EXCEPT !.pc = "decode"]

\* fetch rejected
OnReject(f, thrown) ==
    Catch([f EXCEPT !.hist = EndAttempt(@, 0, TRUE)], thrown)

\* data.message || data.error || `<fallback>`
ErrorOf(body, fallback) ==
    IF Truthy(body.message) THEN <<body.message>>
    ELSE IF Truthy(body.error) THEN <<body.error>>
    ELSE fallback

\* lines 154-181: response.json() settled
OnBody(f, body) ==
    IF ~ResponseOk(f.status)
    THEN LET client == f.status >= 400 /\ f.status < 500
             data == IF body.kind = "undecodable"
                     THEN Body("object", IF client THEN "Client error" ELSE "Server error",
                               Undefined, Undefined, body.ver)
                     ELSE body
             fallback == IF client
                         THEN <<"Request failed with status ", ToString(f.status)>>
                         ELSE <<"Server error (", ToString(f.status), "). Please try again later.">>
         IN  IF data.kind = "null" THEN Catch(f, "TypeError")
             ELSE Return(f, Failure(ErrorOf(data, fallback)))
    ELSE IF body.kind = "undecodable" THEN Catch(f, "SyntaxError")
    ELSE IF body.kind = "null" THEN Catch(f, "TypeError")
    ELSE Return(f, Success(body))

\* line 215-218: the backoff timer fired
OnBackoff(f) == LoopTest([f EXCEPT !.retryCount = @ + 1])

(***************************************************************************)
(* The calls as steps of the event loop.  Each action is one turn: from a  *)
(* resumption (a call, a settled fetch or body, a timer) to the next await.*)
(***************************************************************************)
\* the latest booking a createBooking call has reported as created
Confirmed ==
    LET done == {c \in DOMAIN calls :
                    /\ calls[c].pc = "done"
                    /\ calls[c].m.name = "createBooking"
                    /\ calls[c].result.success = "true"}
    IN  IF done = {} THEN 0
        ELSE CHOOSE v \in {calls[c].result.ver : c \in done} :
                \A c \in done : calls[c].result.ver <= v

\* createBooking lines 277-286: drop every bookings key
InvalidateBookings(map) ==
    LET first == CacheDelete(map, CACHE_KEYS_BOOKINGS)
    IN  Without(first, {k \in DOMAIN first : StartsWith(k, CACHE_KEYS_BOOKINGS)})

\* what runs when request() has returned: withCache lines 118-123 stores the
\* result, createBooking invalidates on success
CacheAfterReturn(f, map, t) ==
    IF f.m.cacheKey # NoKey THEN CacheSet(map, f.m.cacheKey, ObjValue(f.result), f.m.ttl, t)
    ELSE IF f.m.name = "createBooking" /\ f.result.success = "true" THEN InvalidateBookings(map)
    ELSE map

\* the call's promise resolves with value v
Resolve(f, v) == [f EXCEPT !.pc = "done", !.value = v, !.doneNow = now]

\* one turn of call c ends with frame f
Settle(c, f) ==
    /\ calls' = [calls EXCEPT ![c] = IF f.pc = "done" THEN Resolve(f, ObjValue(f.result)) ELSE f]
    /\ cache' = IF f.pc = "done" THEN CacheAfterReturn(f, cache, now) ELSE cache

\* withCache line 118: the fetcher is invoked; the fetcher of an ApiClient
\* method is request(), that of a direct withCache call is the caller's
StartFetcher(f, m) ==
    IF m.name = "withCache" THEN [f EXCEPT !.m = m, !.pc = "fetcher", !.fetched = TRUE]
    ELSE [RequestStart(f, m) EXCEPT !.fetched = TRUE]

\* a method is called: withCache lines 108-118 for the cached ones, then
\* request() up to its first fetch
StartCall(c, m) ==
    /\ calls[c].pc = "idle"
    /\ LET f == [calls[c] EXCEPT !.m = m, !.startNow = now, !.startCreated = Confirmed,
                                 !.after = {d \in DOMAIN calls : calls[d].pc = "done"},
                                 !.caller = storage[TOKEN_KEY]]
       IN  IF m.cacheKey # NoKey
           THEN LET cached == CacheGet(cache, m.cacheKey, now)
                IN  /\ lastRead' = ReadRecord("get", cache, m.cacheKey, now)
                    /\ cache' = AfterRead(cache, m.cacheKey, now)
                    /\ calls' = [calls EXCEPT ![c] =
                            IF Truthy(cached.js)
                            THEN Resolve([f EXCEPT !.hit = TRUE, !.result = cached.env], cached)
                            ELSE StartFetcher(f, m)]
           ELSE /\ calls' = [calls EXCEPT ![c] = RequestStart(f, m)]
                /\ UNCHANGED <<cache, lastRead>>
    /\ UNCHANGED <<baseURL, booking, session, probe, storage, now, backend>>

\* POST /bookings answered 2xx: the backend has created a booking
Creates(f, status) ==
    f.m.http = "POST" /\ f.m.path = <<"bookings">> /\ ResponseOk(status)

\* the backend handles the POST /bookings of an attempt, and creates the
\* booking, before the attempt's response (or its timeout) reaches the client
BackendProcesses(c) ==
    /\ calls[c].pc = "fetching"
    /\ calls[c].m.http = "POST" /\ calls[c].m.path = <<"bookings">>
    /\ ~calls[c].hist[Len(calls[c].hist)].processed
    /\ backend' = backend + 1
    /\ calls' = [calls EXCEPT ![c].hist[Len(calls[c].hist)].processed = TRUE]
    /\ UNCHANGED <<baseURL, booking, session, probe, storage, cache, now, lastRead>>

FetchResolve(c, status) ==
    /\ calls[c].pc = "fetching"
    /\ backend' = IF Creates(calls[c], status) /\ ~calls[c].hist[Len(calls[c].hist)].processed
                  THEN backend + 1 ELSE backend
    /\ Settle(c, OnResponse(calls[c], status, backend'))
    /\ UNCHANGED <<baseURL, booking, session, probe, storage, now, lastRead>>

FetchReject(c, thrown) ==
    /\ calls[c].pc = "fetching"
    /\ Settle(c, OnReject(calls[c], thrown))
    /\ UNCHANGED <<baseURL, booking, session, probe, storage, now, lastRead, backend>>

\* lines 132-144: the abort timer of the attempt is armed by setTimeout before
\* fetch is called and cleared by clearTimeout as soon as fetch has resolved
TimerArmed(f) == f.pc = "fetching"

\* the timer fires: controller.abort() makes the pending fetch reject
AbortTimerFires(c) ==
    /\ TimerArmed(calls[c])
    /\ FetchReject(c, "AbortError")

BodyDecoded(c, body) ==
    /\ calls[c].pc = "decode"
    /\ Settle(c, OnBody(calls[c], body))
    /\ UNCHANGED <<baseURL, booking, session, probe, storage, now, lastRead, backend>>

BackoffElapsed(c) ==
    /\ calls[c].pc = "wait"
    /\ Settle(c, OnBackoff(calls[c]))
    /\ UNCHANGED <<baseURL, booking, session, probe, storage, now, lastRead, backend>>

\* withCache without its clientCache.set
FetcherResolveNoStore(c, js) ==
    /\ calls[c].pc = "fetcher"
    /\ calls' = [calls EXCEPT ![c] = Resolve(calls[c], RawValue(js))]
    /\ UNCHANGED <<baseURL, booking, session, probe, storage, cache, now, lastRead, backend>>

\* the fetcher of a direct withCache call resolves: lines 118-123
FetcherResolve(c, js) ==
    /\ calls[c].pc = "fetcher"
    /\ cache' = CacheSet(cache, calls[c].m.cacheKey, RawValue(js), calls[c].m.ttl, now)
    /\ calls' = [calls EXCEPT ![c] = Resolve(calls[c], RawValue(js))]
    /\ UNCHANGED <<baseURL, booking, session, probe, storage, now, lastRead, backend>>

\* ... or rejects: lines 124-126
FetcherReject(c) ==
    /\ calls[c].pc = "fetcher"
    /\ calls' = [calls EXCEPT ![c] = Throw(calls[c], "fetcher error")]
    /\ UNCHANGED <<baseURL, booking, session, probe, storage, cache, now, lastRead, backend>>

(***************************************************************************)
(* ClientCache operations called directly, and the clock                   *)
(***************************************************************************)
Set(key, data, ttl) ==
    /\ cache' = CacheSet(cache, key, data, ttl, now)
    /\ lastRead' = NoRead
    /\ UNCHANGED <<baseURL, booking, session, probe, storage, calls, now, backend>>

Get(key) ==
    /\ lastRead' = ReadRecord("get", cache, key, now)
    /\ cache' = AfterRead(cache, key, now)
    /\ UNCHANGED <<baseURL, booking, session, probe, storage, calls, now, backend>>

Has(key) ==
    /\ lastRead' = ReadRecord("has", cache, key, now)
    /\ cache' = AfterRead(cache, key, now)
    /\ UNCHANGED <<baseURL, booking, session, probe, storage, calls, now, backend>>

Delete(key) ==
    /\ cache' = CacheDelete(cache, key)
    /\ UNCHANGED <<baseURL, booking, session, probe, storage, calls, now, lastRead, backend>>

Cleanup ==
    /\ cache' = CacheCleanup(cache, now)
    /\ UNCHANGED <<baseURL, booking, session, probe, storage, calls, now, lastRead, backend>>

\* the clock reading of the model's last event
MaxNow == 3

Tick ==
    /\ now < MaxNow
    /\ now' = now + 1
    /\ UNCHANGED <<baseURL, booking, session, probe, storage, calls, cache, lastRead, backend>>

(***************************************************************************)
(* ApiClient.healthCheck (part_011 lines 398-435)                          *)
(***************************************************************************)
HealthTimeout == 5000

SlashApi == <<"/", "a", "p", "i">>

SlashHealth == <<"/", "h", "e", "a", "l", "t", "h">>

\* line 405
healthUrl(base) == Replace(base, SlashApi, <<>>) \o SlashHealth

healthCheck == Endpoint("healthCheck", <<"health">>, <<>>, "GET", AbsentHeaders, FALSE)

\* error.message of what fetch or response.json() throws; a thrown value that
\* is not an Error has none
MessageOf(thrown) ==
    CASE thrown = "AbortError" -> "signal is aborted without reason"
      [] thrown = "CORS" -> "CORS request did not succeed"
      [] thrown = "NetworkError" -> "NetworkError when attempting to fetch resource."
      [] thrown = "SyntaxError" -> "Unexpected token < in JSON at position 0"
      [] thrown = "TypeError" -> "Cannot read properties of null (reading 'data')"
      [] OTHER -> thrown

\* lines 429-434
HealthCatch(f, thrown) ==
    Return([f EXCEPT !.thrown = thrown],
           Failure(IF thrown # "NonError" THEN <<MessageOf(thrown)>> ELSE <<"Health check failed">>))

\* lines 399-413: the timer is armed and fetch is called
HealthStart(c) ==
    /\ calls[c].pc = "idle"
    /\ calls' = [calls EXCEPT ![c] =
            [@ EXCEPT !.m = healthCheck, !.pc = "health fetching", !.startNow = now,
                      !.url = healthUrl(baseURL),
                      !.timeouts = Append(@, HealthTimeout),
                      !.hist = Append(@, Attempt([h \in {"Content-Type"} |-> <<"application/json">>]))]]
    /\ UNCHANGED <<baseURL, booking, session, probe, storage, cache, now, lastRead, backend>>

\* lines 415-428: fetch resolved
HealthResolve(c, status) ==
    /\ calls[c].pc = "health fetching"
    /\ LET f == [calls[c] EXCEPT !.status = status, !.hist = EndAttempt(@, status, FALSE)]
       IN  calls' = [calls EXCEPT ![c] =
                IF ResponseOk(status) THEN [f EXCEPT !.pc = "health decode"]
                ELSE Resolve(Return(f, Failure(<<"Health check failed">>)),
                             ObjValue(Failure(<<"Health check failed">>)))]
    /\ UNCHANGED <<baseURL, booking, session, probe, storage, cache, now, lastRead, backend>>

\* fetch rejected: the abort timer fired or the network failed
HealthReject(c, thrown) ==
    /\ calls[c].pc = "health fetching"
    /\ LET f == HealthCatch([calls[c] EXCEPT !.hist = EndAttempt(@, 0, TRUE)], thrown)
       IN  calls' = [calls EXCEPT ![c] = Resolve(f, ObjValue(f.result))]
    /\ UNCHANGED <<baseURL, booking, session, probe, storage, cache, now, lastRead, backend>>

\* lines 418-422: response.json() settled
HealthDecoded(c, body) ==
    /\ calls[c].pc = "health decode"
    /\ LET f == IF body.kind = "undecodable" THEN HealthCatch(calls[c], "SyntaxError")
                ELSE IF body.kind = "null" THEN HealthCatch(calls[c], "TypeError")
                ELSE Return(calls[c],
                            [success |-> "true", error |-> <<>>,
                             data |-> IF Truthy(body.data) THEN body.data ELSE "status ok",
                             message |-> Undefined, ver |-> body.ver])
       IN  calls' = [calls EXCEPT ![c] = Resolve(f, ObjValue(f.result))]
    /\ UNCHANGED <<baseURL, booking, session, probe, storage, cache, now, lastRead, backend>>

(***************************************************************************)
(* The session providers (contexts/auth-context.tsx, admin-context.tsx).   *)
(* localStorage holds strings; a missing key reads as null.  The strings   *)
(* 'null' and 'undefined' are written with their quotes.                   *)
(***************************************************************************)
StrNull == "'null'"

StrUndefined == "'undefined'"

ProfileText == "{\"email\":\"a@b.c\"}"

NoEmailText == "{\"id\":1}"

\* JSON.parse of a stored profile: it throws, or yields a falsy value, an
\* object without email or an object with one
JSONparse(text) ==
    CASE text = ProfileText -> "profile"
      [] text = NoEmailText -> "no email"
      [] text \in {"0", StrNull} -> "falsy"
      [] OTHER -> "throws"

\* localStorage.removeItem for each key
RemoveItems(store, keys) ==
    [k \in DOMAIN store |-> IF k \in keys THEN JsNull ELSE store[k]]

\* `x && ...` on a string or null from localStorage
Stored(v) == v # JsNull /\ v # ""

\* auth-context.tsx lines 31-56
AuthCheckAuth ==
    /\ session.mounted
    /\ session.isLoading
    /\ LET token == storage["token"]
           userData == storage["user"]
       IN  IF /\ Stored(token) /\ Stored(userData)
              /\ token # StrNull /\ userData # StrNull /\ userData # StrUndefined
           THEN IF JSONparse(userData) = "profile"
                THEN /\ session' = [session EXCEPT !.user = userData, !.isLoading = FALSE]
                     /\ UNCHANGED storage
                ELSE /\ session' = [session EXCEPT !.isLoading = FALSE]
                     /\ storage' = RemoveItems(storage, {"token", "user"})
           ELSE /\ session' = [session EXCEPT !.user = JsNull, !.isLoading = FALSE]
                /\ UNCHANGED storage
    /\ UNCHANGED <<baseURL, booking, probe, calls, cache, now, lastRead, backend>>

\* admin-context.tsx lines 30-61
AdminCheckAuth ==
    /\ session.mounted
    /\ session.adminIsLoading
    /\ LET adminToken == storage["adminToken"]
           adminData == storage["adminUser"]
       IN  IF /\ Stored(adminToken) /\ Stored(adminData)
              /\ adminToken # StrNull /\ adminData # StrNull /\ adminData # StrUndefined
           THEN IF JSONparse(adminData) = "profile"
                THEN /\ session' = [session EXCEPT !.admin = adminData, !.adminIsLoading = FALSE]
                     /\ UNCHANGED storage
                ELSE /\ session' = [session EXCEPT !.adminIsLoading = FALSE]
                     /\ storage' = RemoveItems(storage, {"adminToken", "adminUser"})
           ELSE /\ session' = [session EXCEPT !.adminIsLoading = FALSE]
                /\ storage' = IF adminToken = StrNull \/ adminData = StrNull \/ adminData = StrUndefined
                              THEN RemoveItems(storage, {"adminToken", "adminUser"})
                              ELSE storage
    /\ UNCHANGED <<baseURL, booking, probe, calls, cache, now, lastRead, backend>>

\* auth-context.tsx lines 66-72
login(token, userData) ==
    /\ session.mounted
    /\ ~session.isLoading
    /\ storage' = [storage EXCEPT !["token"] = token, !["user"] = userData]
    /\ session' = [session EXCEPT !.user = userData, !.loggedIn = TRUE]
    /\ UNCHANGED <<baseURL, booking, probe, calls, cache, now, lastRead, backend>>

\* auth-context.tsx lines 74-81
logout ==
    /\ session.mounted
    /\ ~session.isLoading
    /\ storage' = RemoveItems(storage, {"token", "user"})
    /\ session' = [session EXCEPT !.user = JsNull, !.loggedIn = TRUE]
    /\ UNCHANGED <<baseURL, booking, probe, calls, cache, now, lastRead, backend>>

\* admin-context.tsx lines 71-77
adminLogin(token, adminData) ==
    /\ session.mounted
    /\ ~session.adminIsLoading
    /\ storage' = [storage EXCEPT !["adminToken"] = token, !["adminUser"] = adminData]
    /\ session' = [session EXCEPT !.admin = adminData, !.adminLoggedIn = TRUE]
    /\ UNCHANGED <<baseURL, booking, probe, calls, cache, now, lastRead, backend>>

\* admin-context.tsx lines 79-86
adminLogout ==
    /\ session.mounted
    /\ ~session.adminIsLoading
    /\ storage' = RemoveItems(storage, {"adminToken", "adminUser"})
    /\ session' = [session EXCEPT !.admin = JsNull, !.adminLoggedIn = TRUE]
    /\ UNCHANGED <<baseURL, booking, probe, calls, cache, now, lastRead, backend>>

(***************************************************************************)
(* Navigation guards: auth-utils (part_010), AuthWrapper (part_004) and    *)
(* the effect of the login page (app/login/page.tsx lines 37-43).  The URL *)
(* is session.pathname with the value of its `next` parameter, as it is    *)
(* written in the query string, in session.next (empty when absent).       *)
(***************************************************************************)
\* encodeURIComponent, for the characters of a path
encodeURIComponent(s) == [i \in DOMAIN s |-> IF s[i] = "/" THEN "%2F" ELSE s[i]]

\* searchParams.get('next'): the decoded value, or null (here empty)
searchParamsGet(encoded) == [i \in DOMAIN encoded |-> IF encoded[i] = "%2F" THEN "/" ELSE encoded[i]]

\* part_010 lines 15-17: !!localStorage.getItem(TOKEN_KEY)
isLoggedIn == Stored(storage[TOKEN_KEY])

\* part_010 lines 19-28
getSafeRedirect(next, defaultPath) ==
    IF next = <<>> THEN defaultPath
    ELSE IF ~StartsWith(next, Chars("/")) THEN defaultPath
    ELSE IF StartsWith(next, Chars("//")) THEN defaultPath
    ELSE IF StartsWith(next, Chars("/api")) THEN defaultPath
    ELSE next

\* part_004 lines 19-22
isProtectedRoute(pathname) ==
    \E route \in {Chars("/dashboard"), Chars("/book")} : StartsWith(pathname, route)

isAuthRoute(pathname) == pathname \in {Chars("/login"), Chars("/signup")}

\* auth-context.tsx line 84: isAuthenticated: !!user
userIsAuthenticated == session.user # JsNull

\* part_004 lines 43-61 (and admin-wrapper.tsx 49-67 for a visitor who is no
\* admin): the children of the wrappers are rendered
Rendered ==
    /\ ~session.isLoading
    /\ ~session.adminIsLoading
    /\ ~(isProtectedRoute(session.pathname) /\ ~userIsAuthenticated)
    /\ ~(isAuthRoute(session.pathname) /\ userIsAuthenticated)

\* router.push / router.replace: the new URL; a login page on it runs its
\* effect anew
Navigate(pathname, next) ==
    [session EXCEPT !.pathname = pathname, !.next = next, !.loginEffectRan = FALSE]

\* part_004 lines 24-40
AuthWrapperEffect ==
    /\ session.mounted
    /\ ~session.isLoading
    /\ \/ /\ isProtectedRoute(session.pathname) /\ ~userIsAuthenticated
          /\ session' = Navigate(Chars("/login"), encodeURIComponent(session.pathname))
       \/ /\ ~(isProtectedRoute(session.pathname) /\ ~userIsAuthenticated)
          /\ isAuthRoute(session.pathname) /\ userIsAuthenticated
          /\ session' = Navigate(getSafeRedirect(searchParamsGet(session.next), Chars("/dashboard")),
                                  <<>>)
    /\ UNCHANGED <<baseURL, booking, probe, storage, calls, cache, now, lastRead, backend>>

\* login/page.tsx lines 37-43: the effect of the rendered login page
LoginPageEffect ==
    /\ session.mounted
    /\ session.pathname = Chars("/login")
    /\ Rendered
    /\ ~session.loginEffectRan
    /\ session' = IF isLoggedIn
                  THEN Navigate(getSafeRedirect(searchParamsGet(session.next), Chars("/dashboard")),
                                <<>>)
                  ELSE [session EXCEPT !.loginEffectRan = TRUE]
    /\ UNCHANGED <<baseURL, booking, probe, storage, calls, cache, now, lastRead, backend>>

(***************************************************************************)
(* Payment utilities (lib/payment-utils.ts)                                *)
(***************************************************************************)
\* a setup check that passes without looking
validateRazorpaySetupAlwaysValid(Razorpay) == [isValid |-> TRUE, error |-> <<>>]

\* lines 61-71: window.Razorpay is a constructor or undefined
validateRazorpaySetup(Razorpay) ==
    IF ~Truthy(Razorpay)
    THEN [isValid |-> FALSE,
          error |-> <<"Payment system not loaded. Please refresh the page and try again.">>]
    ELSE [isValid |-> TRUE, error |-> <<>>]

\* [^\s@]
NotSpaceNorAt(ch) == ch \notin Whitespace /\ ch # "@"

\* the positions at which a run [^\s@]+ that starts at `from` can end
RunEnds(s, from) ==
    {k \in from..Len(s) : \A x \in from..k : NotSpaceNorAt(s[x])}

\* /^[^\s@]+@[^\s@]+\.[^\s@]+$/.test(s)
EmailRegexTest(s) ==
    \E a \in RunEnds(s, 1) :
        /\ a + 1 <= Len(s)
        /\ s[a + 1] = "@"
        /\ \E b \in RunEnds(s, a + 2) :
              /\ b + 1 <= Len(s)
              /\ s[b + 1] = "."
              /\ Len(s) \in RunEnds(s, b + 2)

MinNameLength == 2

MinPhoneDigits == 10

\* a phone check that accepts one digit fewer
PhoneRegexTestNine(s) ==
    /\ Len(s) >= MinPhoneDigits - 1
    /\ \A i \in 1..Len(s) : s[i] \in Digits

\* /^\d{10,}$/.test(s)
PhoneRegexTest(s) ==
    /\ Len(s) >= MinPhoneDigits
    /\ \A i \in 1..Len(s) : s[i] \in Digits

\* lines 96-118; the amount is an integer
validatePaymentData(data) ==
    LET errors ==
            (IF data.name = <<>> \/ Len(Trim(data.name)) < MinNameLength
             THEN <<"Name must be at least 2 characters">> ELSE <<>>)
         \o (IF data.email = <<>> \/ ~EmailRegexTest(data.email)
             THEN <<"Invalid email address">> ELSE <<>>)
         \o (IF data.phone = <<>> \/ ~PhoneRegexTest(Filter(data.phone, Digits))
             THEN <<"Phone number must be at least 10 digits">> ELSE <<>>)
         \o (IF data.amount = 0 \/ data.amount <= 0
             THEN <<"Invalid payment amount">> ELSE <<>>)
    IN  [isValid |-> Len(errors) = 0, errors |-> errors]

\* lines 168-180
PaymentErrors_RAZORPAY_NOT_LOADED ==
    <<"Payment system not loaded. Please refresh the page and try again.">>

PaymentErrors_PAYMENT_CANCELLED ==
    <<"Payment cancelled. You can retry payment from your dashboard.">>

PaymentErrors_VERIFICATION_FAILED ==
    <<"Payment verification failed. Please contact support if amount was deducted.">>

(***************************************************************************)
(* The booking page (app/book/[categoryId]/page.tsx)                       *)
(***************************************************************************)
\* line 59: defaultPricing.CAREER_GUIDANCE, in paise
defaultPricing == 50000

Toast(kind, text) == [kind |-> kind, text |-> text]

\* `text || fallback` for a message that is a tuple of parts or undefined
OrElse(text, fallback) == IF text # <<>> THEN text ELSE fallback

\* lines 34-39: what zodResolver(bookingSchema) lets through to onSubmit; the
\* e-mail addresses it accepts all have the local@domain.tld shape
bookingSchema(data) ==
    /\ Len(data.name) >= 2
    /\ EmailRegexTest(data.email)
    /\ Len(data.phone) >= 10

\* one apiClient call of the page: the method and its arguments
ApiCall(name, args) == [name |-> name, args |-> args]

\* what the widget hands to its handler
RazorpayResponse(payment, order, signature) ==
    [razorpay_payment_id |-> payment, razorpay_order_id |-> order, razorpay_signature |-> signature]

NoResponse == RazorpayResponse(Undefined, Undefined, Undefined)

NoForm == [name |-> <<>>, email |-> <<>>, phone |-> <<>>]

\* the page as rendered for a known category, before any submission
MountedPage(isAuthenticated, category, Razorpay) ==
    [pc |-> "idle", isAuthenticated |-> isAuthenticated, category |-> category,
     Razorpay |-> Razorpay, isLoading |-> FALSE, isPaymentLoading |-> FALSE,
     route |-> "/book", toasts |-> <<>>, apiCalls |-> <<>>, form |-> NoForm,
     bookingId |-> 0, response |-> NoResponse, submissions |-> 0,
     backendAtSubmit |-> 0, razorpayAtSubmit |-> FALSE, validAtSubmit |-> FALSE,
     ended |-> "none"]

\* a handler of the page returns: how the submission ended
Ends(p, how, toasts) ==
    [p EXCEPT !.pc = IF @ = "left" THEN @ ELSE "idle", !.ended = how, !.toasts = @ \o toasts]

\* the errors of a validation, each as an error toast
RECURSIVE ErrorToasts(_)
ErrorToasts(errors) ==
    IF errors = <<>> THEN <<>>
    ELSE <<Toast("error", <<Head(errors)>>)>> \o ErrorToasts(Tail(errors))

\* lines 146-186: onSubmit up to its first await
onSubmit(p, data) ==
    LET validation == validatePaymentData([name |-> data.name, email |-> data.email,
                                           phone |-> data.phone, amount |-> defaultPricing])
        razorpayValidation == validateRazorpaySetup(p.Razorpay)
    IN  IF ~p.isAuthenticated
        THEN Ends(p, "not authenticated", <<Toast("error", <<"Please login to book a consultation">>)>>)
        ELSE IF ~p.category
        THEN Ends(p, "invalid category", <<Toast("error", <<"Invalid category selected">>)>>)
        ELSE IF ~validation.isValid
        THEN Ends(p, "invalid data", ErrorToasts(validation.errors))
        ELSE IF ~razorpayValidation.isValid
        THEN Ends(p, "not loaded",
                  <<Toast("error", OrElse(razorpayValidation.error, PaymentErrors_RAZORPAY_NOT_LOADED))>>)
        ELSE [p EXCEPT !.pc = "createBooking", !.isLoading = TRUE,
                       !.apiCalls = Append(@, ApiCall("createBooking", <<"CAREER_GUIDANCE", defaultPricing>>))]

\* the frame of an ApiClient call the page has just made
PageCall(name) ==
    LET m == CHOOSE e \in UserEndpoints : e.name = name
    IN  RequestStart([IdleFrame EXCEPT !.m = m, !.startNow = now], m)

\* submissions of the form in one behaviour
MaxSubmissions == 2

\* the form is submitted: the button is enabled (line 431) and the resolver
\* has accepted the data
Submit(data) ==
    /\ booking.route = "/book"
    /\ booking.category
    /\ ~(booking.isLoading \/ booking.isPaymentLoading \/ ~booking.isAuthenticated)
    /\ bookingSchema(data)
    /\ booking.submissions < MaxSubmissions
    /\ LET p == [booking EXCEPT !.submissions = @ + 1, !.toasts = <<>>, !.apiCalls = <<>>,
                                !.form = data, !.bookingId = 0, !.response = NoResponse,
                                !.backendAtSubmit = backend,
                                !.razorpayAtSubmit = Truthy(booking.Razorpay),
                                !.validAtSubmit =
                                    validatePaymentData([name |-> data.name, email |-> data.email,
                                                         phone |-> data.phone,
                                                         amount |-> defaultPricing]).isValid,
                                !.ended = "running"]
           q == onSubmit(p, data)
       IN  /\ booking' = q
           /\ calls' = IF q.pc = "createBooking"
                       THEN [calls EXCEPT ![1] = PageCall("createBooking")]
                       ELSE calls
    /\ UNCHANGED <<baseURL, session, probe, storage, cache, now, lastRead, backend>>

\* an onSubmit that creates the payment order whatever createBooking returned
BookingReturnedUnchecked ==
    /\ booking.pc = "createBooking"
    /\ calls[1].pc = "done"
    /\ booking' = [booking EXCEPT
            !.pc = "createPaymentOrder",
            !.bookingId = calls[1].result.ver,
            !.apiCalls = Append(@, ApiCall("createPaymentOrder", <<calls[1].result.ver>>))]
    /\ calls' = [calls EXCEPT ![1] = PageCall("createPaymentOrder")]
    /\ UNCHANGED <<baseURL, session, probe, storage, cache, now, lastRead, backend>>

\* lines 188-209: createBooking has returned
BookingReturned ==
    /\ booking.pc = "createBooking"
    /\ calls[1].pc = "done"
    /\ LET bookingResponse == calls[1].result
           done == [booking EXCEPT !.isLoading = FALSE]
       IN  IF bookingResponse.success = "true" /\ Truthy(bookingResponse.data)
           THEN IF bookingResponse.data = "payload"
                THEN /\ booking' = [booking EXCEPT
                            !.pc = "createPaymentOrder",
                            !.bookingId = bookingResponse.ver,
                            !.apiCalls = Append(@, ApiCall("createPaymentOrder", <<bookingResponse.ver>>))]
                     /\ calls' = [calls EXCEPT ![1] = PageCall("createPaymentOrder")]
                \* data.booking is undefined: the TypeError lands in the catch
                ELSE /\ booking' = Ends(done, "threw",
                            <<Toast("error", <<"Something went wrong. Please try again.">>)>>)
                     /\ UNCHANGED calls
           ELSE /\ booking' = Ends(done, "booking failed",
                        <<Toast("error", OrElse(bookingResponse.error, <<"Failed to create booking">>))>>)
                /\ UNCHANGED calls
    /\ UNCHANGED <<baseURL, session, probe, storage, cache, now, lastRead, backend>>

\* lines 194-200 and 212-274: createPaymentOrder has returned; on success the
\* widget is constructed and opened, and its constructor may throw
PaymentOrderReturned(opens) ==
    /\ booking.pc = "createPaymentOrder"
    /\ calls[1].pc = "done"
    /\ LET paymentResponse == calls[1].result
           done == [booking EXCEPT !.isLoading = FALSE]
       IN  booking' =
             IF paymentResponse.success = "true" /\ Truthy(paymentResponse.data)
             THEN IF opens
                  THEN [done EXCEPT !.pc = "widget", !.isPaymentLoading = TRUE]
                  ELSE Ends(done, "widget failed",
                            <<Toast("error", <<"Failed to initialize payment. Please try again.">>)>>)
             ELSE Ends(done, "order failed",
                       <<Toast("error", OrElse(paymentResponse.error, <<"Failed to create payment order">>))>>)
    /\ UNCHANGED <<baseURL, session, probe, storage, calls, cache, now, lastRead, backend>>

\* lines 220-228: options.handler, the widget reports a payment
handlePaymentSuccess(response) ==
    /\ booking.pc = "widget"
    /\ booking' = [booking EXCEPT
            !.pc = "verifyPayment", !.isPaymentLoading = TRUE, !.response = response,
            !.apiCalls = Append(@, ApiCall("verifyPayment",
                <<response.razorpay_payment_id, response.razorpay_order_id,
                  response.razorpay_signature, booking.bookingId>>))]
    /\ calls' = [calls EXCEPT ![1] = PageCall("verifyPayment")]
    /\ UNCHANGED <<baseURL, session, probe, storage, cache, now, lastRead, backend>>

\* a handler that goes to the dashboard whatever the verification says
VerifyReturnedAlwaysRedirects ==
    /\ booking.pc = "verifyPayment"
    /\ calls[1].pc = "done"
    /\ booking' = Ends([booking EXCEPT !.isPaymentLoading = FALSE, !.pc = "left",
                                       !.route = "/dashboard?tab=bookings"],
                       "verified",
                       <<Toast("success", <<"Payment successful! Your consultation has been booked.">>)>>)
    /\ UNCHANGED <<baseURL, session, probe, storage, calls, cache, now, lastRead, backend>>

\* lines 230-245: verifyPayment has returned
VerifyReturned ==
    /\ booking.pc = "verifyPayment"
    /\ calls[1].pc = "done"
    /\ LET paymentResponse == calls[1].result
           done == [booking EXCEPT !.isPaymentLoading = FALSE]
       IN  booking' =
             IF paymentResponse.success = "true"
             THEN Ends([done EXCEPT !.pc = "left", !.route = "/dashboard?tab=bookings"],
                       "verified",
                       <<Toast("success", <<"Payment successful! Your consultation has been booked.">>)>>)
             ELSE Ends(done, "verification failed",
                       <<Toast("error", OrElse(paymentResponse.error, PaymentErrors_VERIFICATION_FAILED))>>)
    /\ UNCHANGED <<baseURL, session, probe, storage, calls, cache, now, lastRead, backend>>

\* a dismiss handler that leaves the payment-loading flag set
handlePaymentDismissKeepsLoading ==
    /\ booking.pc = "widget"
    /\ booking' = Ends(booking, "dismissed", <<Toast("info", PaymentErrors_PAYMENT_CANCELLED)>>)
    /\ UNCHANGED <<baseURL, session, probe, storage, calls, cache, now, lastRead, backend>>

\* lines 248-251: options.modal.ondismiss, the widget was closed
handlePaymentDismiss ==
    /\ booking.pc = "widget"
    /\ booking' = Ends([booking EXCEPT !.isPaymentLoading = FALSE], "dismissed",
                       <<Toast("info", PaymentErrors_PAYMENT_CANCELLED)>>)
    /\ UNCHANGED <<baseURL, session, probe, storage, calls, cache, now, lastRead, backend>>

\* the checkout script finishes loading: window.Razorpay appears
ScriptLoaded ==
    /\ booking.pc # "unmounted"
    /\ ~Truthy(booking.Razorpay)
    /\ booking' = [booking EXCEPT !.Razorpay = "function"]
    /\ UNCHANGED <<baseURL, session, probe, storage, calls, cache, now, lastRead, backend>>

(***************************************************************************)
(* invalidateCachePattern (cache.ts lines 131-138)                         *)
(***************************************************************************)
\* keys.forEach(key => { if (key.includes(pattern)) clientCache.delete(key) })
\* over the keys not yet visited
RECURSIVE ForEachDelete(_, _, _)
ForEachDelete(map, keys, pattern) ==
    IF keys = {} THEN map
    ELSE LET key == CHOOSE k \in keys : TRUE
         IN  ForEachDelete(IF Includes(key, pattern) THEN CacheDelete(map, key) ELSE map,
                           keys \ {key}, pattern)

\* an invalidation that matches the pattern at the start of the key only
invalidateCachePatternPrefix(map, pattern) ==
    Without(map, {k \in DOMAIN map : StartsWith(k, pattern)})

invalidateCachePattern(map, pattern) == ForEachDelete(map, DOMAIN map, pattern)

\* a call of invalidateCachePattern on the client cache
InvalidatePattern(pattern) ==
    /\ cache' = invalidateCachePattern(cache, pattern)
    /\ probe' = [op |-> "invalidateCachePattern", pattern |-> pattern,
                 before |-> cache, after |-> cache']
    /\ UNCHANGED <<baseURL, booking, session, storage, calls, now, lastRead, backend>>

(***************************************************************************)
(* ErrorHandler (cache.ts lines 169-332).  An error is the object handed   *)
(* to handle(): a missing message is the empty string, a missing status 0. *)
(***************************************************************************)
MessageIncludes(error, text) == Includes(error.message, Chars(text))

AppError(type, message) == [type |-> type, message |-> message]

\* lines 171-191
handleNetworkError(error) ==
    AppError("network",
        IF error.message # <<>> /\ MessageIncludes(error, "Failed to fetch")
        THEN "Unable to connect to the server. Please try again later."
        ELSE IF error.message # <<>> /\ MessageIncludes(error, "timeout")
        THEN "Request timed out. The server may be busy, please try again."
        ELSE "Network connection error. Please check your internet connection.")

\* lines 194-216
handleAuthError(error) ==
    AppError("auth",
        IF error.message # <<>> /\ (MessageIncludes(error, "invalid_token") \/ MessageIncludes(error, "expired"))
        THEN "Your session has expired. Please log in again."
        ELSE IF error.message # <<>> /\ MessageIncludes(error, "unauthorized")
        THEN "You don't have permission to perform this action."
        ELSE IF error.message # <<>> /\ MessageIncludes(error, "invalid_credentials")
        THEN "Invalid email or password. Please check and try again."
        ELSE "Authentication failed. Please log in again.")

\* lines 219-243
handlePaymentError(error) ==
    AppError("payment",
        IF error.message # <<>> /\ MessageIncludes(error, "insufficient_funds")
        THEN "Insufficient funds. Please check your account balance."
        ELSE IF error.message # <<>> /\ MessageIncludes(error, "invalid_card")
        THEN "Invalid card details. Please check and try again."
        ELSE IF error.message # <<>> /\ MessageIncludes(error, "declined")
        THEN "Payment was declined. Please try a different payment method."
        ELSE IF error.message # <<>> /\ MessageIncludes(error, "timeout")
        THEN "Payment timed out. Please check your payment status in your account."
        ELSE "Payment processing failed. Please try again.")

\* lines 246-272; details is an array of field errors or absent
handleValidationError(error) ==
    AppError("validation",
        IF error.details.given /\ Len(error.details.items) > 0
        THEN "Please fix the following: ..."
        ELSE "Please check your input and try again.")

\* lines 275-297
handleServerError(error) ==
    AppError("server",
        IF error.status >= 500
        THEN "Server is temporarily unavailable. Please try again later."
        ELSE IF error.status = 429
        THEN "Too many requests. Please wait a moment before trying again."
        ELSE IF error.status = 404
        THEN "The requested resource was not found."
        ELSE "Server error occurred. Please try again later.")

\* lines 300-332
handle(error) ==
    IF error.name = "NetworkError" \/ MessageIncludes(error, "fetch")
    THEN handleNetworkError(error)
    ELSE IF error.status = 401 \/ MessageIncludes(error, "unauthorized") \/ MessageIncludes(error, "auth")
    THEN handleAuthError(error)
    ELSE IF error.type = "payment" \/ MessageIncludes(error, "payment") \/ MessageIncludes(error, "razorpay")
    THEN handlePaymentError(error)
    ELSE IF error.type = "validation" \/ error.details.given \/ MessageIncludes(error, "validation")
    THEN handleValidationError(error)
    ELSE IF error.status >= 500
    THEN handleServerError(error)
    ELSE AppError("client",
                  IF error.message # <<>> THEN "error.message"
                  ELSE "An unexpected error occurred. Please try again.")

(***************************************************************************)
(* Calls of the pure helpers: the probe holds the input, then the result   *)
(***************************************************************************)
Input(op, input) == [op |-> op, called |-> FALSE, input |-> input, result |-> <<>>]

ValidatePaymentData ==
    /\ probe.op = "validatePaymentData"
    /\ ~probe.called
    /\ probe' = [probe EXCEPT !.called = TRUE, !.result = validatePaymentData(probe.input)]
    /\ UNCHANGED <<baseURL, booking, session, storage, calls, cache, now, lastRead, backend>>

Handle ==
    /\ probe.op = "handle"
    /\ ~probe.called
    /\ probe' = [probe EXCEPT !.called = TRUE, !.result = handle(probe.input)]
    /\ UNCHANGED <<baseURL, booking, session, storage, calls, cache, now, lastRead, backend>>

\* one request() call answered at once: the envelope it resolves with when
\* its first attempt gets the status and the body of the input
Request ==
    /\ probe.op = "request"
    /\ ~probe.called
    /\ LET fetching == RequestStart(IdleFrame, CHOOSE m \in UserEndpoints : m.name = "getProfile")
           decoding == OnResponse(fetching, probe.input.status, probe.input.body.ver)
       IN  probe' = [probe EXCEPT !.called = TRUE,
                                  !.result = OnBody(decoding, probe.input.body).result]
    /\ UNCHANGED <<baseURL, booking, session, storage, calls, cache, now, lastRead, backend>>

\* calls of the list methods: the probe holds the parameters, then what the
\* method hands to request() and to withCache
GetBookings ==
    /\ probe.op = "getBookings"
    /\ ~probe.called
    /\ probe' = [probe EXCEPT !.called = TRUE,
                               !.result = getBookings(probe.input[1][2], probe.input[2][2])]
    /\ UNCHANGED <<baseURL, booking, session, storage, calls, cache, now, lastRead, backend>>

GetAdminBookings ==
    /\ probe.op = "getAdminBookings"
    /\ ~probe.called
    /\ probe' = [probe EXCEPT !.called = TRUE,
                               !.result = AdminList("getAdminBookings", <<"admin", "bookings">>,
                                                    probe.input)]
    /\ UNCHANGED <<baseURL, booking, session, storage, calls, cache, now, lastRead, backend>>

(***************************************************************************)
(* Specification of one request: any stored tokens, any transport          *)
(* behaviour, for one method of each kind (plain, POST, cached, admin,     *)
(* admin with its own headers)                                             *)
(***************************************************************************)
TokenValues == {JsNull, "", "user-token"}

AdminTokenValues == {JsNull, "admin-token"}

RequestMethods ==
    {m \in ApiMethods :
        m.name \in {"getProfile", "createBooking", "getCategories", "restoreBackupData"}}

\* the parts of the program a specification leaves idle
NoPage == [pc |-> "unmounted"]

NoSession == [mounted |-> FALSE]

NoProbe == [op |-> "none"]

AllIdle ==
    /\ baseURL = API_BASE_URL
    /\ booking = NoPage
    /\ session = NoSession
    /\ probe = NoProbe

InitStorage == storage \in [token : TokenValues, adminToken : AdminTokenValues]

InitRequest ==
    /\ InitStorage
    /\ calls = [c \in {1} |-> IdleFrame]
    /\ cache = EmptyCache
    /\ now = 0
    /\ lastRead = NoRead
    /\ backend = 0
    /\ AllIdle

NextRequest ==
    \/ \E c \in DOMAIN calls, m \in RequestMethods : StartCall(c, m)
    \/ \E c \in DOMAIN calls, status \in Statuses : FetchResolve(c, status)
    \/ \E c \in DOMAIN calls, thrown \in RejectKinds : FetchReject(c, thrown)
    \/ \E c \in DOMAIN calls : \E body \in Bodies(calls[c].ver) : BodyDecoded(c, body)
    \/ \E c \in DOMAIN calls : BackoffElapsed(c)

SpecRequest == InitRequest /\ [][NextRequest]_vars

(***************************************************************************)
(* Specification of the method table: every method, against a transport    *)
(* that answers 200 or 500 with a well-formed body or times out            *)
(***************************************************************************)
MethodStatuses == {200, 500}

MethodBodies(ver) == {Body("object", Undefined, Undefined, "payload", ver)}

NextMethods ==
    \/ \E c \in DOMAIN calls, m \in ApiMethods : StartCall(c, m)
    \/ \E c \in DOMAIN calls, status \in MethodStatuses : FetchResolve(c, status)
    \/ \E c \in DOMAIN calls : FetchReject(c, "AbortError")
    \/ \E c \in DOMAIN calls : \E body \in MethodBodies(calls[c].ver) : BodyDecoded(c, body)
    \/ \E c \in DOMAIN calls : BackoffElapsed(c)

SpecMethods == InitRequest /\ [][NextMethods]_vars

(***************************************************************************)
(* Specification of the cache: direct set / get / has / delete / cleanup   *)
(* on two keys while the clock advances                                    *)
(***************************************************************************)
CacheKeys == {CACHE_KEYS_CATEGORIES, CACHE_KEYS_BOOKINGS \o <<"_", "default">>}

CacheData == {RawValue("v1"), RawValue("v2")}

\* a ttl that has run out after two ticks
ShortTtl == 1

TtlValues == {0, ShortTtl}

InitCache ==
    /\ storage = [token |-> JsNull, adminToken |-> JsNull]
    /\ calls = [c \in {1} |-> IdleFrame]
    /\ cache = EmptyCache
    /\ now = 0
    /\ lastRead = NoRead
    /\ backend = 0
    /\ AllIdle

NextCache ==
    \/ \E key \in CacheKeys, data \in CacheData, ttl \in TtlValues : Set(key, data, ttl)
    \/ \E key \in CacheKeys : Get(key)
    \/ \E key \in CacheKeys : Has(key)
    \/ \E key \in CacheKeys : Delete(key)
    \/ Cleanup
    \/ Tick

SpecCache == InitCache /\ [][NextCache]_vars

(***************************************************************************)
(* Specification of withCache: direct calls with a fetcher that resolves   *)
(* to a truthy or a falsy value or rejects, while the clock advances       *)
(***************************************************************************)
\* direct withCache calls
MaxWithCacheCalls == 2

withCache(key, ttl) ==
    Cached(Endpoint("withCache", <<>>, <<>>, "GET", AbsentHeaders, FALSE), key, ttl)

FetcherValues == {"v1", "0"}

InitWithCache ==
    /\ storage = [token |-> JsNull, adminToken |-> JsNull]
    /\ calls = [c \in 1..MaxWithCacheCalls |-> IdleFrame]
    /\ cache = EmptyCache
    /\ now = 0
    /\ lastRead = NoRead
    /\ backend = 0
    /\ AllIdle

NextWithCache ==
    \/ \E c \in DOMAIN calls, key \in CacheKeys : StartCall(c, withCache(key, ShortTtl))
    \/ \E c \in DOMAIN calls, js \in FetcherValues : FetcherResolve(c, js)
    \/ \E c \in DOMAIN calls : FetcherReject(c)
    \/ Tick

SpecWithCache == InitWithCache /\ [][NextWithCache]_vars

(***************************************************************************)
(* Specification of the booking endpoints: getBookings and createBooking   *)
(* calls running concurrently against one backend                          *)
(***************************************************************************)
BookingMethods == {getBookings(Undefined, Undefined), createBooking}

\* the backend answers a call on its first attempt: with the list or the new
\* booking, or with a client error
BookingStatuses == {200, 404}

InitBookings ==
    /\ storage = [token |-> "user-token", adminToken |-> JsNull]
    /\ calls = [c \in 1..MaxCalls |-> IdleFrame]
    /\ cache = EmptyCache
    /\ now = 0
    /\ lastRead = NoRead
    /\ backend = 0
    /\ AllIdle

NextBookings ==
    \/ \E c \in DOMAIN calls, m \in BookingMethods : StartCall(c, m)
    \/ \E c \in DOMAIN calls, status \in BookingStatuses : FetchResolve(c, status)
    \/ \E c \in DOMAIN calls : \E body \in MethodBodies(calls[c].ver) : BodyDecoded(c, body)

SpecBookings == InitBookings /\ [][NextBookings]_vars

(***************************************************************************)
(* Specification of the booking page: submissions of the form, the three   *)
(* ApiClient calls of a submission one after the other through the request *)
(* engine, and the widget reporting a payment or being closed              *)
(***************************************************************************)
\* form data: a name of two letters or two spaces, a phone of ten digits or
\* of ten characters with eight digits
PageForms ==
    {[name |-> Chars(n), email |-> Chars("a@b.c"), phone |-> Chars(p)] :
        n \in {"ab", "two spaces"}, p \in {"1234567890", "123-456-78"}}

PaymentStatuses == {200, 400, 500}

PaymentBodies(ver) ==
    {Body("object", Undefined, Undefined, "payload", ver),
     Body("object", "body message", Undefined, Undefined, ver),
     Body("undecodable", Undefined, Undefined, Undefined, ver)}

RazorpayResponses ==
    {RazorpayResponse("pay_1", "order_1", "sig_1"), RazorpayResponse("pay_2", "order_1", "sig_2")}

InitPayment ==
    /\ storage = [token |-> "user-token", adminToken |-> JsNull]
    /\ calls = [c \in {1} |-> IdleFrame]
    /\ cache = EmptyCache
    /\ now = 0
    /\ lastRead = NoRead
    /\ backend = 0
    /\ baseURL = API_BASE_URL
    /\ session = NoSession
    /\ probe = NoProbe
    /\ booking \in {MountedPage(a, c, r) :
                        a \in BOOLEAN, c \in BOOLEAN, r \in {Undefined, "function"}}

NextPayment ==
    \/ \E data \in PageForms : Submit(data)
    \/ \E status \in PaymentStatuses : FetchResolve(1, status)
    \/ FetchReject(1, "AbortError")
    \/ \E body \in PaymentBodies(calls[1].ver) : BodyDecoded(1, body)
    \/ BackoffElapsed(1)
    \/ BookingReturned
    \/ \E opens \in BOOLEAN : PaymentOrderReturned(opens)
    \/ \E response \in RazorpayResponses : handlePaymentSuccess(response)
    \/ VerifyReturned
    \/ handlePaymentDismiss
    \/ ScriptLoaded

SpecPayment == InitPayment /\ [][NextPayment]_vars

(***************************************************************************)
(* Specification of the envelopes: one request() call or one healthCheck() *)
(* call, against any transport behaviour and any JSON body, for a client   *)
(* constructed with one of several base URLs                               *)
(***************************************************************************)
\* https://api.example.com/api
ApiHostBaseURL ==
    <<"h", "t", "t", "p", "s", ":", "/", "/", "a", "p", "i", ".", "e", "x",
      "a", "m", "p", "l", "e", ".", "c", "o", "m", "/", "a", "p", "i">>

\* http://localhost:5000/api
LocalBaseURL ==
    <<"h", "t", "t", "p", ":", "/", "/", "l", "o", "c", "a", "l", "h", "o",
      "s", "t", ":", "5", "0", "0", "0", "/", "a", "p", "i">>

BaseURLs == {API_BASE_URL, ApiHostBaseURL, LocalBaseURL}

\* bodies whose message or error is not a string
EnvelopeBodies(ver) ==
    Bodies(ver) \cup {Body("object", JsObject, Undefined, Undefined, ver),
                      Body("object", Undefined, JsObject, Undefined, ver)}

EnvelopeMethods == {m \in ApiMethods : m.name = "getProfile"}

InitEnvelope ==
    /\ storage = [token |-> "user-token", adminToken |-> JsNull]
    /\ calls = [c \in {1} |-> IdleFrame]
    /\ cache = EmptyCache
    /\ now = 0
    /\ lastRead = NoRead
    /\ backend = 0
    /\ baseURL \in BaseURLs
    /\ booking = NoPage
    /\ session = NoSession
    /\ probe = NoProbe

NextEnvelope ==
    \/ \E c \in DOMAIN calls, m \in EnvelopeMethods : StartCall(c, m)
    \/ \E c \in DOMAIN calls, status \in Statuses : FetchResolve(c, status)
    \/ \E c \in DOMAIN calls, thrown \in RejectKinds : FetchReject(c, thrown)
    \/ \E c \in DOMAIN calls : \E body \in EnvelopeBodies(calls[c].ver) : BodyDecoded(c, body)
    \/ \E c \in DOMAIN calls : BackoffElapsed(c)
    \/ \E c \in DOMAIN calls : HealthStart(c)
    \/ \E c \in DOMAIN calls, status \in Statuses : HealthResolve(c, status)
    \/ \E c \in DOMAIN calls, thrown \in RejectKinds : HealthReject(c, thrown)
    \/ \E c \in DOMAIN calls : \E body \in EnvelopeBodies(calls[c].ver) : HealthDecoded(c, body)

SpecEnvelope == InitEnvelope /\ [][NextEnvelope]_vars

(***************************************************************************)
(* Specification of the session providers: both mount over any stored      *)
(* pairs and run their auth check; logins and logouts follow               *)
(***************************************************************************)
StoredTokens == {JsNull, "", StrNull, StrUndefined, "stored-token"}

StoredProfiles == {JsNull, StrNull, StrUndefined, "{oops", "0", NoEmailText, ProfileText}

\* both providers as mounted, before their effect has run; atMount keeps what
\* localStorage held then
MountedSession(store) ==
    [mounted |-> TRUE, user |-> JsNull, isLoading |-> TRUE, loggedIn |-> FALSE,
     admin |-> JsNull, adminIsLoading |-> TRUE, adminLoggedIn |-> FALSE,
     atMount |-> store]

InitSession ==
    /\ storage \in [token : StoredTokens, user : StoredProfiles,
                     adminToken : StoredTokens, adminUser : StoredProfiles]
    /\ session = MountedSession(storage)
    /\ calls = [c \in {1} |-> IdleFrame]
    /\ cache = EmptyCache
    /\ now = 0
    /\ lastRead = NoRead
    /\ backend = 0
    /\ baseURL = API_BASE_URL
    /\ booking = NoPage
    /\ probe = NoProbe

NextSession ==
    \/ AuthCheckAuth
    \/ AdminCheckAuth
    \/ login("fresh-token", ProfileText)
    \/ logout
    \/ adminLogin("fresh-admin-token", ProfileText)
    \/ adminLogout

SpecSession == InitSession /\ [][NextSession]_vars

(***************************************************************************)
(* Specification of invalidateCachePattern: entries are set under keys     *)
(* that share parts, and patterns are invalidated                          *)
(***************************************************************************)
PatternKeys ==
    {<<"b", "_", "1">>, <<"b", "_", "2">>, <<"a", "b">>, <<"c", "_">>}

Patterns == {<<>>, <<"b">>, <<"b", "_">>, <<"_">>, <<"_", "1">>, <<"c">>, <<"x">>}

InitInvalidate ==
    /\ storage = [token |-> JsNull, adminToken |-> JsNull]
    /\ calls = [c \in {1} |-> IdleFrame]
    /\ cache = EmptyCache
    /\ now = 0
    /\ lastRead = NoRead
    /\ backend = 0
    /\ AllIdle

NextInvalidate ==
    \/ \E key \in PatternKeys, data \in CacheData : Set(key, data, ShortTtl)
    \/ \E pattern \in Patterns : InvalidatePattern(pattern)

SpecInvalidate == InitInvalidate /\ [][NextInvalidate]_vars

(***************************************************************************)
(* Specification of validatePaymentData: one call for each form            *)
(***************************************************************************)
\* the longest name and the longest e-mail address tried
MaxNameLen == 3

MaxEmailLen == 5

SeqsUpTo(S, n) == UNION {[1..k -> S] : k \in 0..n}

Names == SeqsUpTo({"a", " "}, MaxNameLen)

Emails == SeqsUpTo({"a", "@", "."}, MaxEmailLen) \cup {<<"a", " ", "@", "a", ".", "a">>}

Phones ==
    {<<>>, Chars("123456789"), Chars("1234567890"),
     Chars("123-456-78"), Chars("(123) 456-7890"), Chars("phone: none")}

Amounts == {-1, 0, defaultPricing}

InitValidate ==
    /\ storage = [token |-> JsNull, adminToken |-> JsNull]
    /\ calls = [c \in {1} |-> IdleFrame]
    /\ cache = EmptyCache
    /\ now = 0
    /\ lastRead = NoRead
    /\ backend = 0
    /\ baseURL = API_BASE_URL
    /\ booking = NoPage
    /\ session = NoSession
    /\ probe \in {Input("validatePaymentData",
                        [name |-> n, email |-> e, phone |-> p, amount |-> a]) :
                    n \in Names, e \in Emails, p \in Phones, a \in Amounts}

NextValidate == ValidatePaymentData

SpecValidate == InitValidate /\ [][NextValidate]_vars

(***************************************************************************)
(* Specification of ErrorHandler.handle: one call for each raw failure     *)
(***************************************************************************)
ErrorNames == {Undefined, "NetworkError", "AbortError", "TypeError"}

ErrorMessages ==
    {<<>>, Chars("Failed to fetch"), Chars("The user aborted a request."),
     Chars("CORS error - please contact support if this persists"),
     Chars("unauthorized"), Chars("payment declined"), Chars("validation failed"),
     Chars("Server error. Please try again later."), Chars("Something else")}

ErrorStatuses == {0, 401, 404, 500}

ErrorTypes == {Undefined, "payment", "validation"}

ErrorDetails == {[given |-> FALSE, items |-> <<>>], [given |-> TRUE, items |-> <<"email">>]}

InitHandle ==
    /\ storage = [token |-> JsNull, adminToken |-> JsNull]
    /\ calls = [c \in {1} |-> IdleFrame]
    /\ cache = EmptyCache
    /\ now = 0
    /\ lastRead = NoRead
    /\ backend = 0
    /\ baseURL = API_BASE_URL
    /\ booking = NoPage
    /\ session = NoSession
    /\ probe \in {Input("handle",
                        [name |-> n, message |-> m, status |-> st, type |-> t, details |-> d]) :
                    n \in ErrorNames, m \in ErrorMessages, st \in ErrorStatuses,
                    t \in ErrorTypes, d \in ErrorDetails}

NextHandle == Handle

SpecHandle == InitHandle /\ [][NextHandle]_vars

(***************************************************************************)
(* Specification of one createBooking call against a backend that may      *)
(* create the booking and then answer 5xx or not answer in time            *)
(***************************************************************************)
InitDelivery ==
    /\ storage = [token |-> "user-token", adminToken |-> JsNull]
    /\ calls = [c \in {1} |-> IdleFrame]
    /\ cache = EmptyCache
    /\ now = 0
    /\ lastRead = NoRead
    /\ backend = 0
    /\ AllIdle

NextDelivery ==
    \/ \E c \in DOMAIN calls : StartCall(c, createBooking)
    \/ \E c \in DOMAIN calls : BackendProcesses(c)
    \/ \E c \in DOMAIN calls, status \in MethodStatuses : FetchResolve(c, status)
    \/ \E c \in DOMAIN calls : FetchReject(c, "AbortError")
    \/ \E c \in DOMAIN calls : \E body \in MethodBodies(calls[c].ver) : BodyDecoded(c, body)
    \/ \E c \in DOMAIN calls : BackoffElapsed(c)

SpecDelivery == InitDelivery /\ [][NextDelivery]_vars

(***************************************************************************)
(* Specification of one page session with two users: logins, logouts and   *)
(* getBookings calls against a backend that answers each request with the  *)
(* bookings of the bearer of its token                                     *)
(***************************************************************************)
SessionTokens == {"token-A", "token-B"}

\* GET /bookings/me: the list of the student the Authorization header names
BookingsOf(token) ==
    CASE token = "token-A" -> "bookings of A"
      [] token = "token-B" -> "bookings of B"
      [] OTHER -> Undefined

IdentityBodies(f) ==
    {IF ResponseOk(f.status)
     THEN Body("object", Undefined, Undefined, BookingsOf(f.token), f.ver)
     ELSE Body("object", "Unauthorized", Undefined, Undefined, f.ver)}

InitIdentity ==
    /\ storage = [token |-> JsNull, user |-> JsNull, adminToken |-> JsNull, adminUser |-> JsNull]
    /\ session = MountedSession(storage)
    /\ calls = [c \in 1..MaxCalls |-> IdleFrame]
    /\ cache = EmptyCache
    /\ now = 0
    /\ lastRead = NoRead
    /\ backend = 0
    /\ baseURL = API_BASE_URL
    /\ booking = NoPage
    /\ probe = NoProbe

NextIdentity ==
    \/ AuthCheckAuth
    \/ \E token \in SessionTokens : login(token, ProfileText)
    \/ logout
    \/ \E c \in DOMAIN calls : StartCall(c, getBookings(Undefined, Undefined))
    \/ \E c \in DOMAIN calls, status \in BookingStatuses : FetchResolve(c, status)
    \/ \E c \in DOMAIN calls : \E body \in IdentityBodies(calls[c]) : BodyDecoded(c, body)

SpecIdentity == InitIdentity /\ [][NextIdentity]_vars

(***************************************************************************)
(* Specification of one request() call with its timers: the abort timer    *)
(* and the backoff timer fire when they are armed; the transport may       *)
(* answer, deliver the body, or do neither                                 *)
(***************************************************************************)
InitStall ==
    /\ storage = [token |-> "user-token", adminToken |-> JsNull]
    /\ calls = [c \in {1} |-> IdleFrame]
    /\ cache = EmptyCache
    /\ now = 0
    /\ lastRead = NoRead
    /\ backend = 0
    /\ AllIdle

NextStall ==
    \/ \E m \in EnvelopeMethods : StartCall(1, m)
    \/ \E status \in Statuses : FetchResolve(1, status)
    \/ AbortTimerFires(1)
    \/ \E body \in Bodies(calls[1].ver) : BodyDecoded(1, body)
    \/ BackoffElapsed(1)

\* timers of the browser always fire; nothing obliges the transport
SpecStall ==
    /\ InitStall
    /\ [][NextStall]_vars
    /\ WF_vars(AbortTimerFires(1))
    /\ WF_vars(BackoffElapsed(1))

(***************************************************************************)
(* Specification of the navigation guards: a visitor who is no admin opens *)
(* a URL of the site over any stored token and profile; the providers run  *)
(* their auth checks and the guards their effects                          *)
(***************************************************************************)
Pathnames ==
    {Chars("/"), Chars("/login"), Chars("/signup"), Chars("/dashboard"), Chars("/book/7")}

NextParams ==
    {<<>>} \cup {encodeURIComponent(Chars(n)) :
                    n \in {"/dashboard", "/book/7", "/login", "//evil.example", "/api/health"}}

InitGuards ==
    /\ storage \in [token : StoredTokens, user : StoredProfiles,
                     adminToken : {JsNull}, adminUser : {JsNull}]
    /\ \E pathname \in Pathnames, next \in NextParams :
          /\ next # <<>> => pathname = Chars("/login")
          /\ session = MountedSession(storage)
                        @@ [pathname |-> pathname, next |-> next, loginEffectRan |-> FALSE]
    /\ calls = [c \in {1} |-> IdleFrame]
    /\ cache = EmptyCache
    /\ now = 0
    /\ lastRead = NoRead
    /\ backend = 0
    /\ baseURL = API_BASE_URL
    /\ booking = NoPage
    /\ probe = NoProbe

NextGuards ==
    \/ AuthCheckAuth
    \/ AdminCheckAuth
    \/ AuthWrapperEffect
    \/ LoginPageEffect

\* React runs every effect that is due
SpecGuards ==
    /\ InitGuards
    /\ [][NextGuards]_vars
    /\ WF_vars(AuthCheckAuth)
    /\ WF_vars(AdminCheckAuth)
    /\ WF_vars(AuthWrapperEffect)
    /\ WF_vars(LoginPageEffect)

(***************************************************************************)
(* Specification of the success envelope: one request() call for each 2xx  *)
(* status and each body                                                    *)
(***************************************************************************)
OkStatuses == {200, 201}

\* object bodies whose `data` is absent, null, 0, '', false or an object,
\* and the two bodies that are no object
UnwrapBodies ==
    {Body("object", m, Undefined, d, ver) :
        m \in {Undefined, "", "body message"},
        d \in {Undefined, JsNull, "0", "", "false", "payload"},
        ver \in 0..2}
    \cup {Body(k, Undefined, Undefined, Undefined, 0) : k \in {"undecodable", "null"}}

InitUnwrap ==
    /\ storage = [token |-> "user-token", adminToken |-> JsNull]
    /\ calls = [c \in {1} |-> IdleFrame]
    /\ cache = EmptyCache
    /\ now = 0
    /\ lastRead = NoRead
    /\ backend = 0
    /\ baseURL = API_BASE_URL
    /\ booking = NoPage
    /\ session = NoSession
    /\ probe \in {Input("request", [status |-> status, body |-> body]) :
                    status \in OkStatuses, body \in UnwrapBodies}

NextUnwrap == Request

SpecUnwrap == InitUnwrap /\ [][NextUnwrap]_vars

(***************************************************************************)
(* Specification of the query strings: one getBookings or getAdminBookings *)
(* call for each combination of parameter values, given or undefined       *)
(***************************************************************************)
PageValues == {Undefined, "0", "1", "2"}

LimitValues == {Undefined, "0", "10"}

StatusValues == {Undefined, "", "PENDING"}

DateValues == {Undefined, "", "2025-01-01"}

InitQuery ==
    /\ storage = [token |-> "user-token", adminToken |-> "admin-token"]
    /\ calls = [c \in {1} |-> IdleFrame]
    /\ cache = EmptyCache
    /\ now = 0
    /\ lastRead = NoRead
    /\ backend = 0
    /\ baseURL = API_BASE_URL
    /\ booking = NoPage
    /\ session = NoSession
    /\ probe \in {Input("getBookings", <<<<"page", pg>>, <<"limit", lim>>>>) :
                      pg \in PageValues, lim \in LimitValues}
               \cup {Input("getAdminBookings",
                           <<<<"status", st>>, <<"page", pg>>, <<"limit", lim>>, <<"dateFrom", d>>>>) :
                      st \in StatusValues, pg \in PageValues, lim \in LimitValues,
                      d \in DateValues}

NextQuery ==
    \/ GetBookings
    \/ GetAdminBookings

SpecQuery == InitQuery /\ [][NextQuery]_vars

(***************************************************************************)
(* Properties of ApiClient.request                                         *)
(***************************************************************************)
Started(c) == calls[c].pc # "idle"

Done(c) == calls[c].pc = "done"

LastAttempt(c) == calls[c].hist[Len(calls[c].hist)]

ClientError(status) == status >= 400 /\ status <= 499

ServerError(status) == status >= 500 /\ status <= 599

\* C1: request never rejects: no call ends rejected, a finished call holds an
\* envelope whose success is true or false, and success:true is reported only
\* for an attempt answered 2xx (every failed attempt that ends the call is
\* reported as success:false)
C1_NeverRejects ==
    \A c \in DOMAIN calls :
        /\ calls[c].pc \in {"idle", "fetching", "decode", "wait", "done"}
        /\ Done(c) =>
            /\ calls[c].result.success \in {"true", "false"}
            /\ calls[c].result.success = "true" =>
                 /\ ~LastAttempt(c).rejected
                 /\ ResponseOk(LastAttempt(c).status)
            /\ (LastAttempt(c).rejected \/ ~ResponseOk(LastAttempt(c).status)) =>
                 calls[c].result.success = "false"

\* a call that ended because its fourth attempt was rejected by fetch
C1_Witness ==
    \E c \in DOMAIN calls :
        /\ Done(c)
        /\ Len(calls[c].hist) = 4
        /\ LastAttempt(c).rejected
        /\ calls[c].result.success = "false"

\* C2: an attempt answered 400..499 ends the call on that attempt with
\* success:false; no attempt follows it and no backoff wait is started
C2_NoRetryAfter4xx ==
    \A c \in DOMAIN calls :
        \A i \in 1..Len(calls[c].hist) :
            ClientError(calls[c].hist[i].status) =>
                /\ i = Len(calls[c].hist)
                /\ calls[c].pc \in {"decode", "done"}
                /\ Done(c) => calls[c].result.success = "false"

\* C3: at most 4 attempts; the wait before retry n is min(1000 * 2^(n-1), 10000),
\* one wait per retry, and no wait follows the attempt that ends the call
C3_AttemptsAndBackoff ==
    \A c \in DOMAIN calls :
        /\ Len(calls[c].hist) <= 4
        /\ \A n \in 1..Len(calls[c].waits) :
              /\ n <= 3
              /\ calls[c].waits[n] = (IF 1000 * (2 ^ (n - 1)) < 10000
                                      THEN 1000 * (2 ^ (n - 1)) ELSE 10000)
        /\ calls[c].pc = "wait" => Len(calls[c].waits) = Len(calls[c].hist)
        /\ calls[c].pc \in {"fetching", "decode", "done"} /\ calls[c].hist # <<>> =>
              Len(calls[c].waits) = Len(calls[c].hist) - 1

\* a call that used all four attempts, with the three waits between them
C3_Witness ==
    \E c \in DOMAIN calls :
        /\ Done(c)
        /\ Len(calls[c].hist) = 4
        /\ calls[c].waits = <<1000, 2000, 4000>>

\* the transport answered 5xx on every attempt but the latest, and 2xx on the latest
FiveXXThenOk(c) ==
    /\ calls[c].hist # <<>>
    /\ ~LastAttempt(c).open
    /\ ResponseOk(LastAttempt(c).status)
    /\ \A i \in 1..(Len(calls[c].hist) - 1) : ServerError(calls[c].hist[i].status)

\* C4: 5xx on the first k attempts (k <= 3) and 2xx on attempt k+1: the call
\* resolves success:true on attempt k+1, and the waits never decrease
C4_RetryThenSuccess ==
    \A c \in DOMAIN calls :
        FiveXXThenOk(c) /\ calls[c].pc # "decode" =>
            /\ Done(c)
            /\ calls[c].result.success = "true"
            /\ \A i, j \in 1..Len(calls[c].waits) :
                  i <= j => calls[c].waits[i] <= calls[c].waits[j]

\* C5: when every attempt was rejected by fetch the call ends only on the fourth
\* attempt, with success:false; a call that ends on a rejected attempt reports
\* the timeout message exactly when that rejection is an abort, and the
\* cannot-connect message exactly when it is a generic fetch failure
C5_RejectedAttempts ==
    \A c \in DOMAIN calls :
        /\ (/\ calls[c].hist # <<>>
            /\ \A i \in 1..Len(calls[c].hist) :
                  calls[c].hist[i].open \/ calls[c].hist[i].rejected) =>
               /\ Done(c) => Len(calls[c].hist) = 4 /\ calls[c].result.success = "false"
               /\ Len(calls[c].hist) < 4 => ~Done(c)
        /\ (Done(c) /\ ~calls[c].hit /\ LastAttempt(c).rejected) =>
               /\ Len(calls[c].hist) = 4
               /\ calls[c].result.success = "false"
               /\ calls[c].thrown = "AbortError" <=>
                    calls[c].result.error =
                      <<"Request timeout - server is taking too long to respond. Please try again later.">>
               /\ calls[c].thrown = "Failed to fetch" <=>
                    calls[c].result.error =
                      <<"Cannot connect to server - please check your internet connection or try again later">>

\* four aborted attempts, reported with the timeout message
C5_Witness ==
    \E c \in DOMAIN calls :
        /\ Done(c)
        /\ Len(calls[c].hist) = 4
        /\ \A i \in 1..4 : calls[c].hist[i].rejected
        /\ calls[c].thrown = "AbortError"
        /\ calls[c].result.error =
             <<"Request timeout - server is taking too long to respond. Please try again later.">>

\* C9: every attempt of a call made while the selected storage key holds a
\* token carries Authorization: Bearer <token>; without a token the attempt is
\* sent without the header
C9_BearerOnEveryAttempt ==
    \A c \in DOMAIN calls :
        \A i \in 1..Len(calls[c].hist) :
            LET sent == calls[c].hist[i].headers
            IN  IF Truthy(calls[c].token)
                THEN /\ "Authorization" \in DOMAIN sent
                     /\ sent["Authorization"] = <<"Bearer ", calls[c].token>>
                ELSE "Authorization" \notin DOMAIN sent

\* C10: a method whose path starts with /admin/ reads adminToken, every other
\* method reads the user token, and no attempt carries the other identity's token
C10_AdminTokenForAdminPaths ==
    \A c \in DOMAIN calls :
        Started(c) =>
            LET want == IF IsAdminPath(calls[c].m.path) THEN "adminToken" ELSE "token"
            IN  /\ calls[c].tokenKey = want
                /\ \A i \in 1..Len(calls[c].hist) :
                      "Authorization" \in DOMAIN calls[c].hist[i].headers =>
                          calls[c].hist[i].headers["Authorization"] = <<"Bearer ", storage[want]>>

\* an admin method and a user method each sent with its own token
C10_Witness ==
    \E c \in DOMAIN calls :
        /\ calls[c].m.name = "getAdminStats"
        /\ Len(calls[c].hist) >= 2
        /\ "Authorization" \in DOMAIN LastAttempt(c).headers
        /\ LastAttempt(c).headers["Authorization"] = <<"Bearer ", "admin-token">>

(***************************************************************************)
(* Properties of the cache                                                 *)
(***************************************************************************)
\* C6: a get / has that meets an entry with now - timestamp > ttl returns
\* null / false and removes the entry, a read of an absent key returns null /
\* false (so reads stay null / false until the next set), and a read that
\* meets an entry with now - timestamp <= ttl returns the stored value / true
C6_ExpiredReadsAbsent ==
    lastRead.op # "none" =>
        LET live == /\ lastRead.stored
                    /\ lastRead.at - lastRead.item.timestamp <= lastRead.item.ttl
        IN  /\ ~live =>
                /\ lastRead.result = RawValue("null")
                /\ lastRead.found = FALSE
                /\ lastRead.key \notin DOMAIN cache
            /\ live =>
                /\ lastRead.op = "get" => lastRead.result = lastRead.item.data
                /\ lastRead.op = "has" => lastRead.found = TRUE

\* a get met an expired entry, returned null and removed it
C6_Witness ==
    /\ lastRead.op = "get"
    /\ lastRead.stored
    /\ lastRead.at - lastRead.item.timestamp > lastRead.item.ttl
    /\ lastRead.result = RawValue("null")
    /\ lastRead.key \notin DOMAIN cache

SameKey(c, d) ==
    /\ calls[c].m.cacheKey # NoKey
    /\ calls[c].m.cacheKey = calls[d].m.cacheKey

\* C7 as claimed: of two withCache calls with the same key that start within
\* the ttl of each other, at most one invokes the fetcher, however they interleave
C7_AtMostOneFetch ==
    \A c, d \in DOMAIN calls :
        (/\ c # d
         /\ SameKey(c, d)
         /\ calls[d].startNow - calls[c].startNow \in 0..calls[c].m.ttl) =>
            ~(calls[c].fetched /\ calls[d].fetched)

\* C7 amended: a withCache call that starts after an earlier call with the same
\* key has resolved, within the ttl of that call's store, does not invoke the
\* fetcher, provided the calls resolved before it stored truthy values
C7_SequentialCallsFetchOnce ==
    \A c, d \in DOMAIN calls :
        (/\ c # d
         /\ SameKey(c, d)
         /\ c \in calls[d].after
         /\ calls[c].fetched
         /\ calls[d].startNow - calls[c].doneNow <= calls[c].m.ttl
         /\ \A e \in calls[d].after :
               SameKey(e, d) /\ calls[e].fetched => calls[e].value.js \notin Falsy) =>
            ~calls[d].fetched /\ calls[d].hit

\* the second call started a tick after the first resolved and was served from the cache
C7_Witness ==
    \E c, d \in DOMAIN calls :
        /\ c # d
        /\ SameKey(c, d)
        /\ c \in calls[d].after
        /\ calls[c].fetched
        /\ calls[d].startNow = calls[c].doneNow + 1
        /\ calls[d].hit
        /\ ~calls[d].fetched

\* C8: a getBookings call that starts after createBooking resolved success:true
\* returns a list that contains the created booking: a list the backend produced
\* after the creation
C8_FreshAfterCreate ==
    \A c \in DOMAIN calls :
        (/\ calls[c].m.name = "getBookings"
         /\ calls[c].pc = "done"
         /\ calls[c].result.success = "true") =>
            calls[c].result.ver >= calls[c].startCreated

(***************************************************************************)
(* Properties of the booking page                                          *)
(***************************************************************************)
Submitted == booking.pc # "unmounted" /\ booking.submissions > 0

VerifyCalls ==
    {i \in DOMAIN booking.apiCalls : booking.apiCalls[i].name = "verifyPayment"}

\* C11 as claimed: a submission with window.Razorpay absent ends with the
\* payment-system-not-loaded failure and has made no ApiClient call
C11_AbsentWidgetEndsNotLoaded ==
    (Submitted /\ ~booking.razorpayAtSubmit) =>
        /\ booking.ended = "not loaded"
        /\ booking.toasts = <<Toast("error", PaymentErrors_RAZORPAY_NOT_LOADED)>>
        /\ booking.apiCalls = <<>>

\* C11 amended: a submission with window.Razorpay absent makes no ApiClient
\* call and starts no request; it ends with the payment-system-not-loaded
\* failure when the form data pass validatePaymentData and with the
\* validation errors, and no other message, when they do not
C11_AbsentWidgetNoApiCalls ==
    (Submitted /\ ~booking.razorpayAtSubmit) =>
        /\ booking.apiCalls = <<>>
        /\ booking.pc = "idle"
        /\ ~booking.isLoading /\ ~booking.isPaymentLoading
        /\ booking.submissions = 1 => calls[1] = IdleFrame
        /\ booking.validAtSubmit =>
              /\ booking.ended = "not loaded"
              /\ booking.toasts = <<Toast("error", PaymentErrors_RAZORPAY_NOT_LOADED)>>
        /\ ~booking.validAtSubmit =>
              /\ booking.ended = "invalid data"
              /\ booking.toasts # <<>>
              /\ \A i \in DOMAIN booking.toasts :
                    booking.toasts[i] # Toast("error", PaymentErrors_RAZORPAY_NOT_LOADED)

\* a valid form was submitted while the widget script had not loaded
C11_Witness ==
    /\ Submitted
    /\ ~booking.razorpayAtSubmit
    /\ booking.validAtSubmit
    /\ booking.ended = "not loaded"

\* C12: once the widget has called the success handler, the submission has
\* issued exactly one verifyPayment call, carrying the three values the widget
\* reported and the id of a booking the backend created during this
\* submission; the page is on the dashboard only when verifyPayment returned
\* success:true, and after a failed verification it stays on the form and its
\* last toast is an error (the envelope's error, or the verification-failed
\* message when the envelope has none), never the cancellation message
C12_VerifyOnceThenRedirect ==
    /\ (Submitted /\ booking.response # NoResponse) =>
          /\ Cardinality(VerifyCalls) = 1
          /\ \A i \in VerifyCalls :
                /\ booking.apiCalls[i].args[1] = booking.response.razorpay_payment_id
                /\ booking.apiCalls[i].args[2] = booking.response.razorpay_order_id
                /\ booking.apiCalls[i].args[3] = booking.response.razorpay_signature
                /\ booking.apiCalls[i].args[4] > booking.backendAtSubmit
                /\ booking.apiCalls[i].args[4] <= backend
                /\ Len(booking.apiCalls[i].args) = 4
          /\ calls[1].m.name = "verifyPayment"
    /\ (Submitted /\ booking.response = NoResponse) => VerifyCalls = {}
    /\ (Submitted /\ booking.route # "/book") =>
          /\ booking.route = "/dashboard?tab=bookings"
          /\ booking.response # NoResponse
          /\ calls[1].pc = "done"
          /\ calls[1].result.success = "true"
    /\ (Submitted /\ booking.ended = "verification failed") =>
          /\ booking.route = "/book"
          /\ calls[1].result.success = "false"
          /\ LET last == booking.toasts[Len(booking.toasts)]
             IN  /\ last.kind = "error"
                 /\ last.text = OrElse(calls[1].result.error, PaymentErrors_VERIFICATION_FAILED)
                 /\ last.text # PaymentErrors_PAYMENT_CANCELLED

\* the widget reported a payment, verifyPayment returned a failure
C12_Witness ==
    /\ Submitted
    /\ booking.ended = "verification failed"
    /\ Cardinality(VerifyCalls) = 1
    /\ booking.bookingId > 0

\* the widget reported a payment, verifyPayment succeeded, the page redirected
C12_WitnessRedirect == Submitted /\ booking.ended = "verified"

\* C13: after the widget called the dismiss handler the submission has issued
\* no verifyPayment call, the page has not been redirected, the only toast of
\* the submission is the payment-cancelled message and isPaymentLoading is false
C13_DismissOnlyCancels ==
    (Submitted /\ booking.ended = "dismissed") =>
        /\ VerifyCalls = {}
        /\ calls[1].m.name # "verifyPayment"
        /\ booking.route = "/book"
        /\ booking.toasts = <<Toast("info", PaymentErrors_PAYMENT_CANCELLED)>>
        /\ ~booking.isPaymentLoading
        /\ ~booking.isLoading

\* the widget was opened and then closed
C13_Witness ==
    /\ Submitted
    /\ booking.ended = "dismissed"
    /\ Len(booking.apiCalls) = 2

(***************************************************************************)
(* Properties of the envelopes and of healthCheck                          *)
(***************************************************************************)
\* a message built of parts is a non-empty string when every part is a string
\* and some part is not empty
NonEmptyString(text) ==
    /\ \A i \in DOMAIN text : IsString(text[i])
    /\ \E i \in DOMAIN text : text[i] # ""

IsHealthCheck(c) == calls[c].m.name = "healthCheck"

\* the origin of a base URL <origin>/api
Origin(base) == SubSeq(base, 1, Len(base) - Len(SlashApi))

\* C14: every envelope that request() or healthCheck() returns with
\* success:false carries an error that is a non-empty string
C14_ErrorIsNonEmptyString ==
    \A c \in DOMAIN calls :
        (Done(c) /\ calls[c].result.success = "false") =>
            NonEmptyString(calls[c].result.error)

\* C19: a healthCheck() call makes one network attempt, with a 5000 ms abort
\* timer, to <origin>/health where the base URL is <origin>/api; it never
\* waits for a retry and its promise never rejects
C19_HealthCheckOneAttempt ==
    \A c \in DOMAIN calls :
        (Started(c) /\ IsHealthCheck(c)) =>
            /\ Len(calls[c].hist) = 1
            /\ calls[c].timeouts = <<HealthTimeout>>
            /\ calls[c].waits = <<>>
            /\ calls[c].pc # "rejected"
            /\ calls[c].url = Origin(baseURL) \o SlashHealth

(***************************************************************************)
(* Properties of the session providers                                     *)
(***************************************************************************)
Placeholder(v) == v \in {StrNull, StrUndefined}

\* a stored pair the auth check must reject
Malformed(token, profile) ==
    \/ token = JsNull \/ token = "" \/ Placeholder(token)
    \/ profile = JsNull \/ profile = "" \/ Placeholder(profile)
    \/ JSONparse(profile) # "profile"

\* C15: once a provider's auth check has run (and before any login or
\* logout), its profile is trusted only if the paired token was present and
\* not a placeholder string, and for a malformed pair both keys of the pair
\* are gone from storage
C15_TrustedPairOrBothRemoved ==
    /\ (session.mounted /\ ~session.isLoading /\ ~session.loggedIn) =>
          /\ session.user # JsNull =>
                /\ ~Malformed(session.atMount["token"], session.atMount["user"])
                /\ ~Placeholder(storage["token"])
          /\ Malformed(session.atMount["token"], session.atMount["user"]) =>
                /\ session.user = JsNull
                /\ storage["token"] = JsNull
                /\ storage["user"] = JsNull
    /\ (session.mounted /\ ~session.adminIsLoading /\ ~session.adminLoggedIn) =>
          /\ session.admin # JsNull =>
                /\ ~Malformed(session.atMount["adminToken"], session.atMount["adminUser"])
                /\ ~Placeholder(storage["adminToken"])
          /\ Malformed(session.atMount["adminToken"], session.atMount["adminUser"]) =>
                /\ session.admin = JsNull
                /\ storage["adminToken"] = JsNull
                /\ storage["adminUser"] = JsNull

(***************************************************************************)
(* Properties of invalidateCachePattern, validatePaymentData and           *)
(* ErrorHandler.handle                                                     *)
(***************************************************************************)
\* p is a substring of key: key = front . p . back
Substring(p, key) ==
    \E i \in 0..Len(key) : \E j \in i..Len(key) : SubSeq(key, i + 1, j) = p

\* C16: invalidateCachePattern(p) leaves no key that contains p, keeps every
\* key that does not contain p with its entry unchanged, and adds no key
C16_DeletesExactlyMatchingKeys ==
    probe.op = "invalidateCachePattern" =>
        /\ \A k \in DOMAIN probe.after : ~Substring(probe.pattern, k)
        /\ \A k \in DOMAIN probe.before :
              ~Substring(probe.pattern, k) =>
                  k \in DOMAIN probe.after /\ probe.after[k] = probe.before[k]
        /\ DOMAIN probe.after \subseteq DOMAIN probe.before

\* an invalidation that deleted a key containing the pattern in its middle and
\* kept another key
C16_Witness ==
    /\ probe.op = "invalidateCachePattern"
    /\ probe.pattern = <<"_">>
    /\ <<"a", "b">> \in DOMAIN probe.after
    /\ <<"b", "_", "1">> \in DOMAIN probe.before
    /\ <<"b", "_", "1">> \notin DOMAIN probe.after

Validated == probe.op = "validatePaymentData" /\ probe.called

NameOk(name) == Len(Trim(name)) >= 2

\* local@domain.tld: no whitespace, exactly one @ with something before it,
\* and after it a dot with something on both sides
EmailShape(email) ==
    /\ \A i \in DOMAIN email : email[i] \notin Whitespace
    /\ Cardinality({i \in DOMAIN email : email[i] = "@"}) = 1
    /\ LET at == CHOOSE i \in DOMAIN email : email[i] = "@"
       IN  /\ at > 1
           /\ \E dot \in (at + 2)..(Len(email) - 1) : email[dot] = "."

PhoneOk(phone) == Cardinality({i \in DOMAIN phone : phone[i] \in Digits}) >= 10

\* the error messages, in field order, of the fields that fail
ExpectedErrors(data) ==
       (IF NameOk(data.name) THEN <<>> ELSE <<"Name must be at least 2 characters">>)
    \o (IF EmailShape(data.email) THEN <<>> ELSE <<"Invalid email address">>)
    \o (IF PhoneOk(data.phone) THEN <<>> ELSE <<"Phone number must be at least 10 digits">>)
    \o (IF data.amount > 0 THEN <<>> ELSE <<"Invalid payment amount">>)

\* C17: validatePaymentData returns isValid:true exactly when the trimmed name
\* has two characters or more, the e-mail has the local@domain.tld shape, the
\* phone holds ten digits or more and the amount is positive; its errors are
\* the messages of the failed fields, one each, and isValid is true exactly
\* when there are none
C17_ValidExactlyWhenAllFieldsPass ==
    Validated =>
        /\ probe.result.isValid <=>
              /\ NameOk(probe.input.name)
              /\ EmailShape(probe.input.email)
              /\ PhoneOk(probe.input.phone)
              /\ probe.input.amount > 0
        /\ probe.result.errors = ExpectedErrors(probe.input)
        /\ probe.result.isValid <=> probe.result.errors = <<>>

\* a form whose only fault is a phone of nine digits
C17_Witness ==
    /\ Validated
    /\ probe.input.phone = Chars("123456789")
    /\ ~probe.result.isValid
    /\ probe.result.errors = <<"Phone number must be at least 10 digits">>

Handled == probe.op = "handle" /\ probe.called

AuthSignal(error) ==
    error.status = 401 \/ MessageIncludes(error, "unauthorized") \/ MessageIncludes(error, "auth")

PaymentSignal(error) ==
    error.type = "payment" \/ MessageIncludes(error, "payment") \/ MessageIncludes(error, "razorpay")

ValidationSignal(error) == error.details.given

ServerSignal(error) == error.status >= 500

\* a fetch rejection, an abort or a CORS failure
TransportSignal(error) ==
    \/ error.name \in {"NetworkError", "AbortError"}
    \/ MessageIncludes(error, "fetch")
    \/ MessageIncludes(error, "aborted")
    \/ MessageIncludes(error, "CORS")

ClaimedKind(error) ==
    IF AuthSignal(error) THEN "auth"
    ELSE IF PaymentSignal(error) THEN "payment"
    ELSE IF ValidationSignal(error) THEN "validation"
    ELSE IF ServerSignal(error) THEN "server"
    ELSE IF TransportSignal(error) THEN "network"
    ELSE "client"

\* C18: handle classifies a failure by the precedence auth > payment >
\* validation > server > network > client; so a failure whose only signal is
\* a status of 500 or more is `server`, an abort or CORS failure is `network`,
\* and a failure with an auth signal and a transport signal is `auth`
C18_ClassifiedByPrecedence ==
    Handled =>
        /\ probe.result.type = ClaimedKind(probe.input)
        /\ (AuthSignal(probe.input) /\ TransportSignal(probe.input)) =>
              probe.result.type = "auth"

(***************************************************************************)
(* Properties of the delivery of non-idempotent requests                   *)
(***************************************************************************)
\* C20: a call with a non-idempotent method sends at most one request, so
\* one createBooking call never makes the backend create two bookings
C20_NonIdempotentSentOnce ==
    \A c \in DOMAIN calls :
        (Started(c) /\ calls[c].m.http = "POST") =>
            /\ Len(calls[c].hist) <= 1
            /\ backend <= Cardinality({d \in DOMAIN calls : Started(d)})

(***************************************************************************)
(* Properties of the cached endpoints across identities and failures       *)
(***************************************************************************)
\* C21: a getBookings call made while a user's token is stored never returns
\* a list fetched with another token: its data are the bookings of the caller
C21_NoListAcrossIdentities ==
    \A c \in DOMAIN calls :
        (/\ calls[c].m.name = "getBookings"
         /\ Done(c)
         /\ calls[c].result.success = "true"
         /\ Truthy(calls[c].caller)) =>
            calls[c].result.data = BookingsOf(calls[c].caller)

(***************************************************************************)
(* Properties of the attempts of one request() call in time                *)
(***************************************************************************)
\* C22: every attempt is bounded by its abort timeout from the fetch until
\* the body is decoded, so a request() call that has started eventually
\* resolves, whatever the transport does
C22_EveryCallResolves == (calls[1].pc # "idle") ~> (calls[1].pc = "done")

\* C23: an attempt answered 2xx ends the call on that attempt with
\* success:true, whatever the body: no attempt and no backoff wait follows it
C23_TwoXXEndsTheCall ==
    \A c \in DOMAIN calls :
        \A i \in 1..Len(calls[c].hist) :
            (~calls[c].hist[i].rejected /\ ResponseOk(calls[c].hist[i].status)) =>
                /\ i = Len(calls[c].hist)
                /\ calls[c].pc \in {"decode", "done"}
                /\ Done(c) => calls[c].result.success = "true"

\* C24: a success:false envelope resolved by the fetcher of a cached method is
\* not stored, so no call is answered from the cache with a failure
C24_FailuresNotCached ==
    /\ \A k \in DOMAIN cache : cache[k].data.env.success # "false"
    /\ \A c \in DOMAIN calls :
          (Done(c) /\ calls[c].hit) => calls[c].result.success = "true"

(***************************************************************************)
(* Properties of the navigation guards                                     *)
(***************************************************************************)
\* C25: for every stored token and profile the redirects of the login page
\* and of AuthWrapper end: from some point on the page on screen is rendered
\* and the URL no longer changes
C25_GuardsSettle ==
    /\ <>[]Rendered
    /\ <>[][session'.pathname = session.pathname]_vars

(***************************************************************************)
(* Properties of the order of the steps of one submission                  *)
(***************************************************************************)
CallNames == [i \in DOMAIN booking.apiCalls |-> booking.apiCalls[i].name]

Issues(name) ==
    /\ Len(booking'.apiCalls) = Len(booking.apiCalls) + 1
    /\ booking'.apiCalls[Len(booking'.apiCalls)].name = name

ReturnedSuccess(name) ==
    /\ calls[1].m.name = name
    /\ calls[1].pc = "done"
    /\ calls[1].result.success = "true"

OpenAttempts(hist) == {i \in DOMAIN hist : hist[i].open}

\* C27: within one call an attempt is issued only as the first attempt of
\* the call or when the backoff timer that followed the previous attempt
\* fires, the outcome of that attempt (a response or a rejection) being
\* known; at most one attempt of a call is in flight, and it is the latest
C27_AttemptsSequential ==
    [][\A c \in DOMAIN calls :
          /\ Len(calls'[c].hist) \in {Len(calls[c].hist), Len(calls[c].hist) + 1}
          /\ Len(calls'[c].hist) = Len(calls[c].hist) + 1 =>
                /\ OpenAttempts(calls[c].hist) = {}
                /\ \/ calls[c].pc = "idle" /\ calls[c].hist = <<>>
                   \/ /\ calls[c].pc = "wait"
                      /\ LastAttempt(c).rejected \/ LastAttempt(c).status # 0
                      /\ Len(calls[c].waits) = Len(calls[c].hist)
                      /\ calls'[c].waits = calls[c].waits
          /\ Cardinality(OpenAttempts(calls'[c].hist)) <= 1
          /\ OpenAttempts(calls'[c].hist) \subseteq {Len(calls'[c].hist)}
          /\ calls'[c].pc = "wait" => OpenAttempts(calls'[c].hist) = {}
      ]_vars

\* a second attempt in flight after the first one failed and its backoff
\* wait elapsed
C27_Witness ==
    \E c \in DOMAIN calls :
        /\ calls[c].pc = "fetching"
        /\ Len(calls[c].hist) = 2
        /\ ~calls[c].hist[1].open
        /\ calls[c].waits = <<1000>>

(***************************************************************************)
(* Properties of the success envelope                                      *)
(***************************************************************************)
\* C28: on a 2xx response whose body is a JSON object, request() returns
\* success:true with as data the `data` field of the body whenever the body
\* has one, whatever its value, and the whole body only when it has none
C28_DataFieldUnwrapped ==
    (probe.op = "request" /\ probe.called /\ probe.input.body.kind = "object") =>
        /\ probe.result.success = "true"
        /\ probe.result.data =
              (IF probe.input.body.data # Undefined THEN probe.input.body.data ELSE "body")

(***************************************************************************)
(* Properties of entries stored without a lifetime                         *)
(***************************************************************************)
\* C29: a get or has that meets an entry stored with ttl <= 0 reports the
\* key as absent (null / false), also at the clock reading of the set
C29_ZeroTtlReadsAbsent ==
    (lastRead.op # "none" /\ lastRead.stored /\ lastRead.item.ttl <= 0) =>
        /\ lastRead.result = NullValue
        /\ lastRead.found = FALSE

(***************************************************************************)
(* Properties of the query strings                                         *)
(***************************************************************************)
IsDefined(param) == param[2] # Undefined

\* name=value of each parameter, joined by &
RECURSIVE Serialized(_)
Serialized(params) ==
    IF params = <<>> THEN <<>>
    ELSE <<params[1][1], "=", params[1][2]>>
         \o (IF Len(params) = 1 THEN <<>> ELSE <<"&">> \o Serialized(Tail(params)))

\* C30: the query string of a list method holds every parameter whose value
\* is defined, 0 and '' included, and omits only the undefined ones; the
\* cache key of getBookings is built from that query string
C30_DefinedParamsSerialized ==
    (probe.op \in {"getBookings", "getAdminBookings"} /\ probe.called) =>
        LET query == Serialized(SelectSeq(probe.input, IsDefined))
        IN  /\ probe.result.query = query
            /\ probe.op = "getBookings" =>
                  probe.result.cacheKey =
                      <<"bookings", "_">> \o (IF query # <<>> THEN query ELSE <<"default">>)

====
